---- MODULE Spec2Model ----
(***************************************************************************)
(* A model of the notification backend's Redis-backed rate limiter         *)
(* (backend/src/middleware/rateLimiter.ts over CacheService in             *)
(* backend/src/utils/redis.ts) and of its in-app delivery service          *)
(* (services/inAppService.ts).                                             *)
(*                                                                         *)
(* Time is in milliseconds.  Window lengths, limits and the mailbox cap    *)
(* are scaled down from the values of the source; the code paths are the   *)
(* same for every value.                                                   *)
(***************************************************************************)
EXTENDS Integers, Sequences, FiniteSets, TLC

(***************************************************************************)
(* Bounds of the model.                                                    *)
(***************************************************************************)
\* The clock advances in steps of TickMs up to MaxNow.
TickMs == 500
MaxNow == 2000
\* Number of isAllowed calls in one run, and of Redis commands that fail.
MaxCalls == 4
MaxFailures == 1
\* defaultRateLimiter: (WINDOW_MS, MAX_REQUESTS), 900000 ms and 100 in the source.
DefaultWindowMs == 1000
DefaultMax == 1
\* authRateLimiter: 15 * 60 * 1000 ms and 5 attempts in the source.
AuthWindowMs == 1000
AuthMax == 1

\* In-app service: the mailbox cap (100 in the source) and the default limit
\* of getUserNotifications (50 in the source), the notifications sent in one
\* run, the other calls started, the cache commands that fail, and the ttl
\* in seconds a caller passes.
MailboxCap == 2
GetLimit == 1
MaxNotifs == 3
MaxOps == 2
MaxCacheFailures == 1
CallerTtl == 3600
\* storeNotification: ttl || 86400
DefaultTtl == 86400

\* Server-side request handlers whose awaits interleave.
Procs == {1, 2}
\* req.ip of the clients, and the routes a request can take: every request
\* passes app.use(defaultRateLimiter.middleware()); a request to /api/auth
\* then passes router.use(authRateLimiter.middleware()).
Ips == {"ip1"}
Routes == {"api", "auth"}

NoTtl == -1

\* exp claim of the tokens, in seconds since the start of the run.
TokenExp == 1

\* expiresAt of the API keys that expire, in milliseconds.
KeyExpiresAt == 1000

\* The longest message sendSms accepts, in characters.
SmsMaxLength == 1600

\* Number of requests the provider receives in a run.
MaxSms == 2

\* The delay of the forced exit, in milliseconds.
ShutdownTimeoutMs == 30000

\* The step of the process clock, in milliseconds.
ShTickMs == 10000

\* The latest instant at which a signal arrives.
LastSignalAt == 10000

\* Number of signals received in a run.
MaxSignals == 2

\* Number of client connections the server holds.
MaxConns == 2

VARIABLES
    now,        \* Date.now() and the clock of the Redis server
    rlCount,    \* Redis: value of key rate_limit:<identifier>:<windowStart>, 0 = no key
    rlExpiry,   \* Redis: instant at which the key expires, NoTtl = none
    rlPc,       \* position of each handler in middleware()/isAllowed()/increment()
    rlCall,     \* locals of each handler
    rlHist,     \* history: per limiter, identifier and Date.now() the calls and their outcomes
    rooms,      \* socket.io: the sessions joined to room user:<userId>
    bodies,     \* Redis: value and TTL of key notification:<id>
    idx,        \* Redis: value of key notifications:<userId>, the mailbox index
    idxTtl,     \* Redis: TTL of key notifications:<userId>
    inPc,       \* position of each handler in the InAppService method it runs
    inCall,     \* locals of each handler
    nextId,     \* the next notification id of generateNotificationId
    lastEmit,   \* output: the emit the latest step made and the sessions it reached
    inRet,      \* output: the result the latest step returned from sendNotification
    inOps,      \* history: number of calls other than sendNotification started
    inFails,    \* number of cache commands that may still fail
    inMiss,     \* output: why the latest step ended a mark or delete call without acting
    users,      \* database: per user id, missing, inactive or active
    apiKeys,    \* database: the apiKey record of each key string
    auPc,       \* position of the handler in authenticate()
    auReq,      \* locals of the handler: the request's headers and what it read
    auRes,      \* output: the response or next() the latest step made
    smsConfigured, \* SmsService.isConfigured and client, set by the constructor
    smsPc,      \* position of the sendSms call
    smsCall,    \* locals of the sendSms call
    smsOut,     \* output: what the latest step of sendSms returned or threw
    smsLog,     \* provider: the requests client.messages.create has received
    shNow,      \* the clock of the process, in milliseconds
    http,       \* httpServer: listening, closing (no longer accepting) or closed
    conns,      \* httpServer: number of open client connections
    db,         \* the Prisma client: connected, disconnected, or error on disconnect
    redis,      \* the Redis connection: connected, disconnected, or error on disconnect
    shPc,       \* position of each gracefulShutdown call's close callback
    shSignalAt, \* the instant each gracefulShutdown call set its timer
    exitCode    \* the code process.exit was called with, Running before

rlVars == <<now, rlCount, rlExpiry, rlPc, rlCall, rlHist>>

inVars == <<rooms, bodies, idx, idxTtl, inPc, inCall, nextId, lastEmit, inRet, inOps, inFails, inMiss>>

auVars == <<users, apiKeys, auPc, auReq, auRes>>

smsVars == <<smsConfigured, smsPc, smsCall, smsOut, smsLog>>

shVars == <<shNow, http, conns, db, redis, shPc, shSignalAt, exitCode>>

vars == <<now, rlCount, rlExpiry, rlPc, rlCall, rlHist,
          rooms, bodies, idx, idxTtl, inPc, inCall, nextId, lastEmit, inRet, inOps, inFails, inMiss,
          users, apiKeys, auPc, auReq, auRes,
          smsConfigured, smsPc, smsCall, smsOut, smsLog,
          shNow, http, conns, db, redis, shPc, shSignalAt, exitCode>>

(***************************************************************************)
(* RedisRateLimiter instances.                                             *)
(***************************************************************************)
LimiterNames == {"default", "auth"}

defaultRateLimiter == [windowMs |-> DefaultWindowMs, maxRequests |-> DefaultMax]

authRateLimiter == [windowMs |-> AuthWindowMs, maxRequests |-> AuthMax]

Limiter(l) == IF l = "default" THEN defaultRateLimiter ELSE authRateLimiter

Times == {t \in 0..MaxNow : t % TickMs = 0}

CeilDiv(a, b) == (a + b - 1) \div b

\* const windowStart = Math.floor(now / this.windowMs) * this.windowMs
WindowStartNoFloor(t, windowMs) == t

WindowStart(t, windowMs) == (t \div windowMs) * windowMs

\* Math.ceil(this.windowMs / 1000), the ttlSeconds handed to cache.increment
TtlSeconds(windowMs) == CeilDiv(windowMs, 1000)

\* const key = `rate_limit:${identifier}:${windowStart}`
RateKey(identifier, windowStart) == <<identifier, windowStart>>

Keys == {RateKey(ip, WindowStart(t, Limiter(l).windowMs)) : ip \in Ips, t \in Times, l \in LimiterNames}

\* redis.incr(key): the value after the increment
IncrAllowedOnly(c) == IF c > DefaultMax THEN c ELSE c + 1

IncrStuck(c) == IF c = 0 THEN 1 ELSE c

Incr(c) == c + 1

\* allowed: current <= this.maxRequests
AllowedStrict(current, maxRequests) == current >= 1 /\ current <= maxRequests

AllowedLess(current, maxRequests) == current < maxRequests

AllowedOffByOne(current, maxRequests) == current <= maxRequests + 1

AllowedInverted(current, maxRequests) == current > maxRequests

Allowed(current, maxRequests) == current <= maxRequests

\* const remaining = Math.max(0, this.maxRequests - current)
Remaining(current, maxRequests) ==
    IF maxRequests - current > 0 THEN maxRequests - current ELSE 0

\* const resetTime = windowStart + this.windowMs
ResetTime(windowStart, windowMs) == windowStart + windowMs

(***************************************************************************)
(* History of the calls.  rlHist[<<l, ip, t>>] counts, for the calls of    *)
(* limiter l for identifier ip with Date.now() = t: n, the calls whose     *)
(* INCR was executed; f, the calls on which a Redis command failed (each   *)
(* logged by logger.error); next and r429, the calls the middleware        *)
(* answered with next() and with 429.                                      *)
(***************************************************************************)
HistKeys == {<<l, ip, t>> : l \in LimiterNames, ip \in Ips, t \in Times}

NoHist == [n |-> 0, f |-> 0, next |-> 0, r429 |-> 0]

RECURSIVE SumOver(_, _)
SumOver(S, field) ==
    IF S = {} THEN 0
    ELSE LET k == CHOOSE x \in S : TRUE
         IN  rlHist[k][field] + SumOver(S \ {k}, field)

\* The calls of limiter l for ip whose Date.now() falls in [from, to).
CallsIn(l, ip, from, to) == {k \in HistKeys : k[1] = l /\ k[2] = ip /\ k[3] >= from /\ k[3] < to}

\* The aligned window [start, start + windowMs) in which instant t lies.
AlignedWindow(t, windowMs) == t - (t % windowMs)

\* The calls of limiter l for ip in the aligned window that starts at windowStart.
WindowCalls(l, ip, windowStart) ==
    {k \in HistKeys : k[1] = l /\ k[2] = ip /\ AlignedWindow(k[3], Limiter(l).windowMs) = windowStart}

\* The calls of the other limiter instances that use the same Redis key.
ForeignCalls(l, ip, windowStart) ==
    {k \in HistKeys : k[1] # l /\ k[2] = ip
                      /\ RateKey(k[2], WindowStart(k[3], Limiter(k[1]).windowMs)) = RateKey(ip, windowStart)}

TotalFailures == SumOver(HistKeys, "f")

IdleCall == [lim |-> "default", route |-> "api", identifier |-> "ip1",
             t |-> 0, current |-> 0, ok |-> TRUE, rank |-> 0, alone |-> TRUE]

RlInit ==
    /\ now = 0
    /\ rlCount = [k \in Keys |-> 0]
    /\ rlExpiry = [k \in Keys |-> NoTtl]
    /\ rlPc = [p \in Procs |-> "idle"]
    /\ rlCall = [p \in Procs |-> IdleCall]
    /\ rlHist = [k \in HistKeys |-> NoHist]

InFlight(p) == rlPc[p] \in {"expire", "respond"}

CallsStarted == SumOver(HistKeys, "next") + SumOver(HistKeys, "r429")
                + Cardinality({p \in Procs : InFlight(p)})

\* isAllowed up to the INCR of cache.increment: the handler takes Date.now(),
\* computes the key and Redis executes INCR.  rank and alone are history:
\* the number of this call among the calls of its limiter in its window that
\* reached Redis, and whether only calls of its own limiter, none of them
\* failed, have used the key before.
DoIncr(p, l, route, ip) ==
    LET windowMs == Limiter(l).windowMs
        windowStart == WindowStart(now, windowMs)
        key == RateKey(ip, windowStart)
        result == Incr(rlCount[key])
        own == WindowCalls(l, ip, AlignedWindow(now, windowMs))
        foreign == ForeignCalls(l, ip, windowStart)
    IN  /\ CallsStarted < MaxCalls
        /\ rlCount' = [rlCount EXCEPT ![key] = result]
        /\ rlHist' = [rlHist EXCEPT ![<<l, ip, now>>].n = @ + 1]
        /\ rlCall' = [rlCall EXCEPT ![p] =
                          [lim |-> l, route |-> route, identifier |-> ip,
                           t |-> now, current |-> result, ok |-> TRUE,
                           rank |-> SumOver(own, "n") + 1,
                           alone |-> SumOver(foreign, "n") + SumOver(foreign, "f")
                                     + SumOver(own, "f") = 0]]
        /\ rlPc' = [rlPc EXCEPT ![p] =
                        IF TtlSeconds(windowMs) # 0 /\ result = 1 THEN "expire" ELSE "respond"]
        /\ UNCHANGED <<now, rlExpiry>>

\* INCR throws (store unreachable): cache.increment logs the error and returns 0.
FailIncr(p, l, route, ip) ==
    /\ CallsStarted < MaxCalls
        /\ TotalFailures < MaxFailures
        /\ rlHist' = [rlHist EXCEPT ![<<l, ip, now>>].f = @ + 1]
        /\ rlCall' = [rlCall EXCEPT ![p] =
                          [lim |-> l, route |-> route, identifier |-> ip,
                           t |-> now, current |-> 0, ok |-> FALSE,
                           rank |-> 0, alone |-> FALSE]]
        /\ rlPc' = [rlPc EXCEPT ![p] = "respond"]
        /\ UNCHANGED <<now, rlCount, rlExpiry>>

\* Handlers are interchangeable: a new request is given to the first free one.
FirstIdle(p) == rlPc[p] = "idle" /\ \A q \in Procs : q < p => rlPc[q] # "idle"

\* A request enters app.use(defaultRateLimiter.middleware()).
RequestIncrOk(p) ==
    /\ FirstIdle(p)
    /\ \E route \in Routes, ip \in Ips : DoIncr(p, "default", route, ip)

RequestIncrFail(p) ==
    /\ FirstIdle(p)
    /\ \E route \in Routes, ip \in Ips : FailIncr(p, "default", route, ip)

\* The request, passed on by next(), enters router.use(authRateLimiter.middleware()).
AuthIncrOk(p) ==
    /\ rlPc[p] = "auth"
    /\ DoIncr(p, "auth", "auth", rlCall[p].identifier)

AuthIncrFail(p) ==
    /\ rlPc[p] = "auth"
    /\ FailIncr(p, "auth", "auth", rlCall[p].identifier)

\* if (ttlSeconds && result === 1) await this.redis.expire(key, ttlSeconds)
ExpireOk(p) ==
    LET c == rlCall[p]
        windowMs == Limiter(c.lim).windowMs
        key == RateKey(c.identifier, WindowStart(c.t, windowMs))
    IN  /\ rlPc[p] = "expire"
        /\ rlExpiry' = [rlExpiry EXCEPT ![key] =
                            IF rlCount[key] = 0 THEN NoTtl
                            ELSE now + TtlSeconds(windowMs) * 1000]
        /\ rlPc' = [rlPc EXCEPT ![p] = "respond"]
        /\ UNCHANGED <<now, rlCount, rlCall, rlHist>>

\* EXPIRE throws after INCR succeeded: the catch of cache.increment logs the
\* error and returns 0; the key keeps its count and has no TTL.
ExpireFail(p) ==
    LET c == rlCall[p]
    IN  /\ rlPc[p] = "expire"
        /\ TotalFailures < MaxFailures
        /\ rlCall' = [rlCall EXCEPT ![p].current = 0, ![p].ok = FALSE]
        /\ rlHist' = [rlHist EXCEPT ![<<c.lim, c.identifier, c.t>>].f = @ + 1]
        /\ rlPc' = [rlPc EXCEPT ![p] = "respond"]
        /\ UNCHANGED <<now, rlCount, rlExpiry>>

\* The rest of isAllowed and of middleware(): the result is computed from
\* current; a denied request gets 429 RATE_LIMIT_EXCEEDED, an allowed one next().
Respond(p) ==
    LET c == rlCall[p]
        lim == Limiter(c.lim)
        allowed == Allowed(c.current, lim.maxRequests)
        toAuth == allowed /\ c.lim = "default" /\ c.route = "auth"
        h == <<c.lim, c.identifier, c.t>>
    IN  /\ rlPc[p] = "respond"
        /\ rlHist' = IF ~allowed THEN [rlHist EXCEPT ![h].r429 = @ + 1]
                     ELSE [rlHist EXCEPT ![h].next = @ + 1]
        /\ rlPc' = [rlPc EXCEPT ![p] = IF toAuth THEN "auth" ELSE "idle"]
        /\ rlCall' = [rlCall EXCEPT ![p] =
                          IF toAuth THEN [IdleCall EXCEPT !.identifier = c.identifier] ELSE IdleCall]
        /\ UNCHANGED <<now, rlCount, rlExpiry>>

\* Time passes; Redis drops the keys whose expiry has been reached.  A round
\* trip to Redis is short against TickMs: no call is in flight across a tick.
Tick ==
    LET t == now + TickMs
        expired(k) == rlExpiry[k] # NoTtl /\ rlExpiry[k] <= t
    IN  /\ t <= MaxNow
        /\ \A p \in Procs : rlPc[p] = "idle"
        /\ now' = t
        /\ rlCount' = [k \in Keys |-> IF expired(k) THEN 0 ELSE rlCount[k]]
        /\ rlExpiry' = [k \in Keys |-> IF expired(k) THEN NoTtl ELSE rlExpiry[k]]
        /\ UNCHANGED <<rlPc, rlCall, rlHist>>

RlNext ==
    \/ \E p \in Procs : RequestIncrOk(p) /\ UNCHANGED <<inVars, auVars, smsVars, shVars>>
    \/ \E p \in Procs : RequestIncrFail(p) /\ UNCHANGED <<inVars, auVars, smsVars, shVars>>
    \/ \E p \in Procs : AuthIncrOk(p) /\ UNCHANGED <<inVars, auVars, smsVars, shVars>>
    \/ \E p \in Procs : AuthIncrFail(p) /\ UNCHANGED <<inVars, auVars, smsVars, shVars>>
    \/ \E p \in Procs : ExpireOk(p) /\ UNCHANGED <<inVars, auVars, smsVars, shVars>>
    \/ \E p \in Procs : ExpireFail(p) /\ UNCHANGED <<inVars, auVars, smsVars, shVars>>
    \/ \E p \in Procs : Respond(p) /\ UNCHANGED <<inVars, auVars, smsVars, shVars>>
    \/ (Tick /\ UNCHANGED <<inVars, auVars, smsVars, shVars>>)

(***************************************************************************)
(* In-app delivery service (InAppService) over the socket server and the   *)
(* cache.                                                                  *)
(***************************************************************************)
Users == {"u1", "u2"}

Recipients == {"u1"}
Sessions == {1, 2}
Ids == 1..MaxNotifs

\* TTL of a key that does not exist.
Absent == -2

NoBody == [exists |-> FALSE, to |-> "u1", read |-> FALSE, ttl |-> Absent]

NoRet == [made |-> FALSE, id |-> 0, to |-> "u1", persistent |-> FALSE, ttl |-> 0,
          delivered |-> FALSE, stored |-> FALSE, evicted |-> FALSE]

NoEmit == [event |-> "none", id |-> 0, ids |-> <<>>, sessions |-> {}]

IdleInCall == [op |-> "none", id |-> 0, to |-> "u1", persistent |-> FALSE, ttl |-> 0,
               delivered |-> FALSE, list |-> <<>>, removed |-> <<>>, found |-> <<>>,
               evicted |-> FALSE]

InInit ==
    /\ rooms = [u \in Users |-> {}]
    /\ bodies = [i \in Ids |-> NoBody]
    /\ idx = [u \in Users |-> <<>>]
    /\ idxTtl = [u \in Users |-> Absent]
    /\ inPc = [p \in Procs |-> "idle"]
    /\ inCall = [p \in Procs |-> IdleInCall]
    /\ nextId = 1
    /\ lastEmit = NoEmit
    /\ inRet = NoRet
    /\ inMiss = "none"
    /\ inOps = 0

InFirstIdle(p) == inPc[p] = "idle" /\ \A q \in Procs : q < p => inPc[q] # "idle"

\* A cache command either reaches Redis (ok) or throws; CacheService catches.
CacheOutcome(ok) ==
    /\ ok \/ inFails > 0
    /\ inFails' = IF ok THEN inFails ELSE inFails - 1

\* this.io.to(room).emit(event, payload): reaches the sessions in the room.
Emit(event, id, ids, room) ==
    [event |-> event, id |-> id, ids |-> ids, sessions |-> rooms[room]]

\* ttl || 86400
EffectiveTtlRaw(ttl) == ttl

EffectiveTtl(ttl) == IF ttl # 0 THEN ttl ELSE DefaultTtl

\* userNotifications.unshift(notification.id)
UnshiftAtEnd(list, id) == list \o <<id>>

Unshift(list, id) == <<id>> \o list

\* userNotifications.splice(100): the ids removed, and the ids kept
RemovedIds(list) == IF Len(list) > MailboxCap THEN SubSeq(list, MailboxCap + 1, Len(list)) ELSE <<>>

KeptIdsAll(list) == list

KeptIds(list) == IF Len(list) > MailboxCap THEN SubSeq(list, 1, MailboxCap) ELSE list

\* notificationIds.slice(0, limit)
Slice(list, limit) == IF Len(list) > limit THEN SubSeq(list, 1, limit) ELSE list

\* notificationIds.filter(id => id !== notificationId)
RECURSIVE Filter(_, _)
Filter(list, id) ==
    IF list = <<>> THEN <<>>
    ELSE IF Head(list) = id THEN Filter(Tail(list), id)
         ELSE <<Head(list)>> \o Filter(Tail(list), id)

\* deliverNotification: the sockets of room user:<to> are fetched; none: false;
\* otherwise the notification is emitted to the room: true.
DeliveredToAnyone(to) == TRUE

Delivered(to) == rooms[to] # {}

\* return { delivered, stored }
SendResult(id, to, persistent, ttl, delivered, stored, evicted) ==
    [made |-> TRUE, id |-> id, to |-> to, persistent |-> persistent, ttl |-> ttl,
     delivered |-> delivered, stored |-> stored, evicted |-> evicted]

\* sendNotification up to the first cache command: the notification is built,
\* deliverNotification runs (with the in-memory adapter fetchSockets resolves
\* without I/O), then storeNotification is entered or the result returned.
SendNotification(p) ==
    /\ InFirstIdle(p)
    /\ nextId <= MaxNotifs
    /\ \E to \in Recipients, persistent \in BOOLEAN, ttl \in {0, CallerTtl} :
         LET delivered == Delivered(to)
             store == persistent \/ ~delivered
         IN  /\ lastEmit' = IF delivered THEN Emit("notification", nextId, <<>>, to) ELSE NoEmit
             /\ inCall' = [inCall EXCEPT ![p] =
                               IF store THEN [IdleInCall EXCEPT !.op = "send", !.id = nextId, !.to = to,
                                                                !.persistent = persistent, !.ttl = ttl,
                                                                !.delivered = delivered]
                               ELSE IdleInCall]
             /\ inPc' = [inPc EXCEPT ![p] = IF store THEN "storeBody" ELSE "idle"]
             /\ inRet' = IF store THEN NoRet
                          ELSE SendResult(nextId, to, persistent, ttl, delivered, FALSE, FALSE)
    /\ nextId' = nextId + 1
    /\ inMiss' = "none"
    /\ UNCHANGED <<rooms, bodies, idx, idxTtl, inOps, inFails>>

\* read: false, in the notification that sendNotification builds
StoredReadIfDelivered(delivered) == delivered

StoredRead(delivered) == FALSE

\* storeNotification: await cache.set(notificationKey, notification, ttl || 86400)
StoreBody(p) ==
    LET c == inCall[p]
    IN  /\ inPc[p] = "storeBody"
        /\ \E ok \in BOOLEAN :
             /\ CacheOutcome(ok)
             /\ bodies' = IF ok THEN [bodies EXCEPT ![c.id] = [exists |-> TRUE, to |-> c.to,
                                                               read |-> StoredRead(c.delivered),
                                                               ttl |-> EffectiveTtl(c.ttl)]]
                          ELSE bodies
        /\ inPc' = [inPc EXCEPT ![p] = "storeGet"]
        /\ lastEmit' = NoEmit
        /\ inRet' = NoRet
        /\ inMiss' = "none"
        /\ UNCHANGED <<rooms, idx, idxTtl, inCall, nextId, inOps>>

\* const userNotifications = await cache.get(key) || []; unshift; splice(100)
StoreGet(p) ==
    LET c == inCall[p]
    IN  /\ inPc[p] = "storeGet"
        /\ \E ok \in BOOLEAN :
             /\ CacheOutcome(ok)
             /\ LET list == Unshift(IF ok THEN idx[c.to] ELSE <<>>, c.id)
                IN  /\ inCall' = [inCall EXCEPT ![p].list = KeptIds(list),
                                                ![p].removed = RemovedIds(list),
                                                ![p].evicted = RemovedIds(list) # <<>>]
                    /\ inPc' = [inPc EXCEPT ![p] =
                                    IF RemovedIds(list) # <<>> THEN "storeDel" ELSE "storeSet"]
        /\ lastEmit' = NoEmit
        /\ inRet' = NoRet
        /\ inMiss' = "none"
        /\ UNCHANGED <<rooms, bodies, idx, idxTtl, nextId, inOps>>

\* for (const id of removedIds) await cache.del(`notification:${id}`)
StoreDel(p) ==
    LET c == inCall[p]
    IN  /\ inPc[p] = "storeDel"
        /\ \E ok \in BOOLEAN :
             /\ CacheOutcome(ok)
             /\ bodies' = IF ok THEN [bodies EXCEPT ![Head(c.removed)] = NoBody] ELSE bodies
        /\ inCall' = [inCall EXCEPT ![p].removed = Tail(c.removed)]
        /\ inPc' = [inPc EXCEPT ![p] = IF Tail(c.removed) # <<>> THEN "storeDel" ELSE "storeSet"]
        /\ lastEmit' = NoEmit
        /\ inRet' = NoRet
        /\ inMiss' = "none"
        /\ UNCHANGED <<rooms, idx, idxTtl, nextId, inOps>>

\* await cache.set(key, userNotifications, ttl || 86400); return true
StoreSet(p) ==
    LET c == inCall[p]
    IN  /\ inPc[p] = "storeSet"
        /\ \E ok \in BOOLEAN :
             /\ CacheOutcome(ok)
             /\ idx' = IF ok THEN [idx EXCEPT ![c.to] = c.list] ELSE idx
             /\ idxTtl' = IF ok THEN [idxTtl EXCEPT ![c.to] = EffectiveTtl(c.ttl)] ELSE idxTtl
        /\ inRet' = SendResult(c.id, c.to, c.persistent, c.ttl, c.delivered, TRUE, c.evicted)
        /\ inMiss' = "none"
        /\ inCall' = [inCall EXCEPT ![p] = IdleInCall]
        /\ inPc' = [inPc EXCEPT ![p] = "idle"]
        /\ lastEmit' = NoEmit
        /\ UNCHANGED <<rooms, bodies, nextId, inOps>>

\* The body a cache.get returns: null when the key is absent or the command fails.
GetBody(id, ok) == IF ok THEN bodies[id] ELSE NoBody

\* if (notification && notification.to === userId)
IsRecipientAny(b, userId) == b.exists

IsRecipient(b, userId) == b.exists /\ b.to = userId

\* markNotificationAsRead: const notification = await cache.get(...);
\* if (notification && notification.to === userId)
MarkNotificationAsRead(p) ==
    /\ InFirstIdle(p)
    /\ inOps < MaxOps
    /\ inOps' = inOps + 1
    /\ \E id \in Ids, userId \in Users, ok \in BOOLEAN :
         /\ CacheOutcome(ok)
         /\ LET b == GetBody(id, ok)
                hit == IsRecipient(b, userId)
            IN  /\ inPc' = [inPc EXCEPT ![p] = IF hit THEN "markSet" ELSE "idle"]
                /\ inCall' = [inCall EXCEPT ![p] =
                                  IF hit THEN [IdleInCall EXCEPT !.op = "markRead", !.id = id, !.to = userId]
                                  ELSE IdleInCall]
                /\ inMiss' = IF hit THEN "none" ELSE IF b.exists THEN "foreign" ELSE "absent"
    /\ lastEmit' = NoEmit
    /\ inRet' = NoRet
    /\ UNCHANGED <<rooms, bodies, idx, idxTtl, nextId>>

\* notification.read = true; await cache.set(key, notification);
\* emit('notification_read', { notificationId })
MarkSet(p) ==
    LET c == inCall[p]
    IN  /\ inPc[p] = "markSet"
        /\ \E ok \in BOOLEAN :
             /\ CacheOutcome(ok)
             /\ bodies' = IF ok THEN [bodies EXCEPT ![c.id] = [exists |-> TRUE, to |-> c.to, read |-> TRUE,
                                                               ttl |-> NoTtl]]
                          ELSE bodies
        /\ lastEmit' = Emit("notification_read", c.id, <<>>, c.to)
        /\ inPc' = [inPc EXCEPT ![p] = "idle"]
        /\ inCall' = [inCall EXCEPT ![p] = IdleInCall]
        /\ inRet' = NoRet
        /\ inMiss' = "none"
        /\ UNCHANGED <<rooms, idx, idxTtl, nextId, inOps>>

\* The end of getUserNotifications(userId, false) in its two callers:
\* sendPendingNotifications emits the unread notifications, if any;
\* markAllNotificationsAsRead goes on to write them, or emits at once.
AfterScan(p, found) ==
    LET c == inCall[p]
    IN  IF c.op = "pending"
        THEN /\ lastEmit' = IF found # <<>> THEN Emit("pending_notifications", 0, found, c.to)
                            ELSE NoEmit
             /\ inPc' = [inPc EXCEPT ![p] = "idle"]
             /\ inCall' = [inCall EXCEPT ![p] = IdleInCall]
        ELSE IF found # <<>>
        THEN /\ lastEmit' = NoEmit
             /\ inPc' = [inPc EXCEPT ![p] = "allSet"]
             /\ inCall' = [inCall EXCEPT ![p].found = found, ![p].list = <<>>]
        ELSE /\ lastEmit' = Emit("all_notifications_read", 0, <<>>, c.to)
             /\ inPc' = [inPc EXCEPT ![p] = "idle"]
             /\ inCall' = [inCall EXCEPT ![p] = IdleInCall]

\* getUserNotifications: const notificationIds = await cache.get(key) || [];
\* the loop runs over notificationIds.slice(0, limit)
ScanIdx(p) ==
    LET c == inCall[p]
    IN  /\ inPc[p] = "scanIdx"
        /\ \E ok \in BOOLEAN :
             /\ CacheOutcome(ok)
             /\ LET list == Slice(IF ok THEN idx[c.to] ELSE <<>>, GetLimit)
                IN  IF list # <<>>
                    THEN /\ inCall' = [inCall EXCEPT ![p].list = list]
                         /\ inPc' = [inPc EXCEPT ![p] = "scanBody"]
                         /\ lastEmit' = NoEmit
                    ELSE AfterScan(p, <<>>)
        /\ inRet' = NoRet
        /\ inMiss' = "none"
        /\ UNCHANGED <<rooms, bodies, idx, idxTtl, nextId, inOps>>

\* const notification = await cache.get(`notification:${id}`);
\* if (notification && (includeRead || !notification.read)) push
ScanBody(p) ==
    LET c == inCall[p]
    IN  /\ inPc[p] = "scanBody"
        /\ \E ok \in BOOLEAN :
             /\ CacheOutcome(ok)
             /\ LET b == GetBody(Head(c.list), ok)
                    found == IF b.exists /\ ~b.read THEN Append(c.found, Head(c.list)) ELSE c.found
                IN  IF Tail(c.list) # <<>>
                    THEN /\ inCall' = [inCall EXCEPT ![p].list = Tail(c.list), ![p].found = found]
                         /\ inPc' = inPc
                         /\ lastEmit' = NoEmit
                    ELSE AfterScan(p, found)
        /\ inRet' = NoRet
        /\ inMiss' = "none"
        /\ UNCHANGED <<rooms, bodies, idx, idxTtl, nextId, inOps>>

\* The sockets that are connected and have joined a room.
Connected(s) == \E u \in Users : s \in rooms[u]

\* A new connection gets the first socket that is free.
FirstFree(s) == ~Connected(s) /\ \A r \in Sessions : r < s => Connected(r)

\* socket.on('join'): socket.join(`user:${userId}`); sendPendingNotifications(userId)
Join(p) ==
    /\ InFirstIdle(p)
    /\ inOps < MaxOps
    /\ inOps' = inOps + 1
    /\ \E s \in Sessions, userId \in Users :
         /\ FirstFree(s) \/ (Connected(s) /\ s \notin rooms[userId])
         /\ rooms' = [rooms EXCEPT ![userId] = @ \cup {s}]
         /\ inCall' = [inCall EXCEPT ![p] = [IdleInCall EXCEPT !.op = "pending", !.to = userId]]
    /\ inPc' = [inPc EXCEPT ![p] = "scanIdx"]
    /\ lastEmit' = NoEmit
    /\ inRet' = NoRet
    /\ inMiss' = "none"
    /\ UNCHANGED <<bodies, idx, idxTtl, nextId, inFails>>

\* socket 'disconnect': the session leaves its rooms.
Disconnect ==
    /\ \E s \in Sessions :
         /\ \E u \in Users : s \in rooms[u]
         /\ rooms' = [u \in Users |-> rooms[u] \ {s}]
    /\ lastEmit' = NoEmit
    /\ inRet' = NoRet
    /\ inMiss' = "none"
    /\ UNCHANGED <<bodies, idx, idxTtl, inPc, inCall, nextId, inOps, inFails>>

\* markAllNotificationsAsRead: getUserNotifications(userId, false) first
MarkAllNotificationsAsRead(p) ==
    /\ InFirstIdle(p)
    /\ inOps < MaxOps
    /\ inOps' = inOps + 1
    /\ \E userId \in Users :
         inCall' = [inCall EXCEPT ![p] = [IdleInCall EXCEPT !.op = "markAll", !.to = userId]]
    /\ inPc' = [inPc EXCEPT ![p] = "scanIdx"]
    /\ lastEmit' = NoEmit
    /\ inRet' = NoRet
    /\ inMiss' = "none"
    /\ UNCHANGED <<rooms, bodies, idx, idxTtl, nextId, inFails>>

\* for (const notification of notifications) { notification.read = true;
\* await cache.set(key, notification) }; emit('all_notifications_read')
AllSet(p) ==
    LET c == inCall[p]
        id == Head(c.found)
        last == Tail(c.found) = <<>>
    IN  /\ inPc[p] = "allSet"
        /\ \E ok \in BOOLEAN :
             /\ CacheOutcome(ok)
             /\ bodies' = IF ok THEN [bodies EXCEPT ![id] = [exists |-> TRUE, to |-> c.to,
                                                            read |-> TRUE, ttl |-> NoTtl]]
                          ELSE bodies
        /\ lastEmit' = IF last THEN Emit("all_notifications_read", 0, <<>>, c.to) ELSE NoEmit
        /\ inPc' = [inPc EXCEPT ![p] = IF last THEN "idle" ELSE "allSet"]
        /\ inCall' = [inCall EXCEPT ![p] = IF last THEN IdleInCall ELSE [c EXCEPT !.found = Tail(c.found)]]
        /\ inRet' = NoRet
        /\ inMiss' = "none"
        /\ UNCHANGED <<rooms, idx, idxTtl, nextId, inOps>>

\* deleteNotification: const notification = await cache.get(...);
\* if (notification && notification.to === userId)
DeleteNotification(p) ==
    /\ InFirstIdle(p)
    /\ inOps < MaxOps
    /\ inOps' = inOps + 1
    /\ \E id \in Ids, userId \in Users, ok \in BOOLEAN :
         /\ CacheOutcome(ok)
         /\ LET b == GetBody(id, ok)
                hit == IsRecipient(b, userId)
            IN  /\ inPc' = [inPc EXCEPT ![p] = IF hit THEN "delGetIdx" ELSE "idle"]
                /\ inCall' = [inCall EXCEPT ![p] =
                                  IF hit THEN [IdleInCall EXCEPT !.op = "delete", !.id = id, !.to = userId]
                                  ELSE IdleInCall]
                /\ inMiss' = IF hit THEN "none" ELSE IF b.exists THEN "foreign" ELSE "absent"
    /\ lastEmit' = NoEmit
    /\ inRet' = NoRet
    /\ UNCHANGED <<rooms, bodies, idx, idxTtl, nextId>>

\* const notificationIds = await cache.get(key) || []; filter
DelGetIdx(p) ==
    LET c == inCall[p]
    IN  /\ inPc[p] = "delGetIdx"
        /\ \E ok \in BOOLEAN :
             /\ CacheOutcome(ok)
             /\ inCall' = [inCall EXCEPT ![p].list = Filter(IF ok THEN idx[c.to] ELSE <<>>, c.id)]
        /\ inPc' = [inPc EXCEPT ![p] = "delSetIdx"]
        /\ lastEmit' = NoEmit
        /\ inRet' = NoRet
        /\ inMiss' = "none"
        /\ UNCHANGED <<rooms, bodies, idx, idxTtl, nextId, inOps>>

\* await cache.set(key, updatedIds)
DelSetIdx(p) ==
    LET c == inCall[p]
    IN  /\ inPc[p] = "delSetIdx"
        /\ \E ok \in BOOLEAN :
             /\ CacheOutcome(ok)
             /\ idx' = IF ok THEN [idx EXCEPT ![c.to] = c.list] ELSE idx
             /\ idxTtl' = IF ok THEN [idxTtl EXCEPT ![c.to] = NoTtl] ELSE idxTtl
        /\ inPc' = [inPc EXCEPT ![p] = "delBody"]
        /\ lastEmit' = NoEmit
        /\ inRet' = NoRet
        /\ inMiss' = "none"
        /\ UNCHANGED <<rooms, bodies, inCall, nextId, inOps>>

\* await cache.del(`notification:${notificationId}`); emit('notification_deleted')
DelBody(p) ==
    LET c == inCall[p]
    IN  /\ inPc[p] = "delBody"
        /\ \E ok \in BOOLEAN :
             /\ CacheOutcome(ok)
             /\ bodies' = IF ok THEN [bodies EXCEPT ![c.id] = NoBody] ELSE bodies
        /\ lastEmit' = Emit("notification_deleted", c.id, <<>>, c.to)
        /\ inPc' = [inPc EXCEPT ![p] = "idle"]
        /\ inCall' = [inCall EXCEPT ![p] = IdleInCall]
        /\ inRet' = NoRet
        /\ inMiss' = "none"
        /\ UNCHANGED <<rooms, idx, idxTtl, nextId, inOps>>

InNext ==
    \/ \E p \in Procs : SendNotification(p) /\ UNCHANGED <<rlVars, auVars, smsVars, shVars>>
    \/ \E p \in Procs : StoreBody(p) /\ UNCHANGED <<rlVars, auVars, smsVars, shVars>>
    \/ \E p \in Procs : StoreGet(p) /\ UNCHANGED <<rlVars, auVars, smsVars, shVars>>
    \/ \E p \in Procs : StoreDel(p) /\ UNCHANGED <<rlVars, auVars, smsVars, shVars>>
    \/ \E p \in Procs : StoreSet(p) /\ UNCHANGED <<rlVars, auVars, smsVars, shVars>>
    \/ \E p \in Procs : MarkNotificationAsRead(p) /\ UNCHANGED <<rlVars, auVars, smsVars, shVars>>
    \/ \E p \in Procs : MarkSet(p) /\ UNCHANGED <<rlVars, auVars, smsVars, shVars>>
    \/ \E p \in Procs : Join(p) /\ UNCHANGED <<rlVars, auVars, smsVars, shVars>>
    \/ (Disconnect /\ UNCHANGED <<rlVars, auVars, smsVars, shVars>>)
    \/ \E p \in Procs : ScanIdx(p) /\ UNCHANGED <<rlVars, auVars, smsVars, shVars>>
    \/ \E p \in Procs : ScanBody(p) /\ UNCHANGED <<rlVars, auVars, smsVars, shVars>>
    \/ \E p \in Procs : MarkAllNotificationsAsRead(p) /\ UNCHANGED <<rlVars, auVars, smsVars, shVars>>
    \/ \E p \in Procs : AllSet(p) /\ UNCHANGED <<rlVars, auVars, smsVars, shVars>>
    \/ \E p \in Procs : DeleteNotification(p) /\ UNCHANGED <<rlVars, auVars, smsVars, shVars>>
    \/ \E p \in Procs : DelGetIdx(p) /\ UNCHANGED <<rlVars, auVars, smsVars, shVars>>
    \/ \E p \in Procs : DelSetIdx(p) /\ UNCHANGED <<rlVars, auVars, smsVars, shVars>>
    \/ \E p \in Procs : DelBody(p) /\ UNCHANGED <<rlVars, auVars, smsVars, shVars>>

\* CallerTtl seconds pass while no call is in flight: Redis drops the keys
\* whose TTL has run out (set with SETEX) and the other TTLs run down; keys
\* written by SET without a TTL stay.
Elapse ==
    LET runsOut(t) == t > 0 /\ t <= CallerTtl
        left(t) == IF t > 0 THEN t - CallerTtl ELSE t
    IN  /\ \A p \in Procs : inPc[p] = "idle"
        /\ \/ \E i \in Ids : bodies[i].exists /\ runsOut(bodies[i].ttl)
           \/ \E u \in Users : runsOut(idxTtl[u])
        /\ bodies' = [i \in Ids |->
                          IF bodies[i].exists /\ runsOut(bodies[i].ttl) THEN NoBody
                          ELSE [bodies[i] EXCEPT !.ttl = left(@)]]
        /\ idx' = [u \in Users |-> IF runsOut(idxTtl[u]) THEN <<>> ELSE idx[u]]
        /\ idxTtl' = [u \in Users |-> IF runsOut(idxTtl[u]) THEN Absent ELSE left(idxTtl[u])]
        /\ lastEmit' = NoEmit
        /\ inRet' = NoRet
        /\ inMiss' = "none"
        /\ UNCHANGED <<rooms, inPc, inCall, nextId, inOps, inFails>>

\* The in-app service handling one call at a time, with time passing between calls.
InNextSerial ==
    \/ SendNotification(1) /\ UNCHANGED <<rlVars, auVars, smsVars, shVars>>
    \/ StoreBody(1) /\ UNCHANGED <<rlVars, auVars, smsVars, shVars>>
    \/ StoreGet(1) /\ UNCHANGED <<rlVars, auVars, smsVars, shVars>>
    \/ StoreDel(1) /\ UNCHANGED <<rlVars, auVars, smsVars, shVars>>
    \/ StoreSet(1) /\ UNCHANGED <<rlVars, auVars, smsVars, shVars>>
    \/ MarkNotificationAsRead(1) /\ UNCHANGED <<rlVars, auVars, smsVars, shVars>>
    \/ MarkSet(1) /\ UNCHANGED <<rlVars, auVars, smsVars, shVars>>
    \/ Join(1) /\ UNCHANGED <<rlVars, auVars, smsVars, shVars>>
    \/ (Disconnect /\ UNCHANGED <<rlVars, auVars, smsVars, shVars>>)
    \/ ScanIdx(1) /\ UNCHANGED <<rlVars, auVars, smsVars, shVars>>
    \/ ScanBody(1) /\ UNCHANGED <<rlVars, auVars, smsVars, shVars>>
    \/ MarkAllNotificationsAsRead(1) /\ UNCHANGED <<rlVars, auVars, smsVars, shVars>>
    \/ AllSet(1) /\ UNCHANGED <<rlVars, auVars, smsVars, shVars>>
    \/ DeleteNotification(1) /\ UNCHANGED <<rlVars, auVars, smsVars, shVars>>
    \/ DelGetIdx(1) /\ UNCHANGED <<rlVars, auVars, smsVars, shVars>>
    \/ DelSetIdx(1) /\ UNCHANGED <<rlVars, auVars, smsVars, shVars>>
    \/ DelBody(1) /\ UNCHANGED <<rlVars, auVars, smsVars, shVars>>
    \/ (Elapse /\ UNCHANGED <<rlVars, auVars, smsVars, shVars>>)

\* The rate limiter, with the in-app service at rest.
(***************************************************************************)
(* Authentication middleware: authenticate, authenticateToken,             *)
(* authenticateApiKey, and the AuthUtils helpers they call.                *)
(***************************************************************************)

\* apiKey.expiresAt of a key that never expires (null in the database).
NoExpiry == -3

Tokens == {"good1", "good2", "forged"}

\* What jwt.verify sees in a token: whether the signature matches JWT_SECRET,
\* the exp claim in seconds, and the id claim generateToken puts in the payload.
Jwt(token) ==
    CASE token = "good1" -> [sigOk |-> TRUE, exp |-> TokenExp, id |-> "u1"]
      [] token = "good2" -> [sigOk |-> TRUE, exp |-> TokenExp, id |-> "u2"]
      [] OTHER -> [sigOk |-> FALSE, exp |-> TokenExp, id |-> "u1"]

\* An Authorization header: absent (undefined), or a string given by the
\* pieces authHeader.split(' ') yields; <<"">> is the empty string.
NoHeader == [present |-> FALSE, parts |-> <<>>]

AuthHeaders ==
    {NoHeader} \cup
    {[present |-> TRUE, parts |-> s] :
        s \in {<<"">>, <<"Bearer">>, <<"Bearer", "">>, <<"Basic", "good1">>}
              \cup {<<"Bearer", t>> : t \in Tokens}}

\* An X-API-Key header: absent, or a string.
NoKeyHeader == [present |-> FALSE, value |-> ""]

KeyNames == {"k1"}

KeyHeaders == {NoKeyHeader} \cup {[present |-> TRUE, value |-> v] : v \in {"", "k1", "k2"}}

\* JavaScript truthiness of a header value: undefined and '' are falsy.
Truthy(h) == h.present /\ h.parts # <<"">>

TruthyKey(k) == k.present /\ k.value # ""

\* AuthUtils.extractTokenFromHeader; "" stands for null (both are falsy).
extractTokenFromHeader(h) ==
    IF ~Truthy(h) THEN ""
    ELSE IF Len(h.parts) # 2 \/ h.parts[1] # "Bearer" THEN ""
    ELSE h.parts[2]

\* AuthUtils.verifyToken at Date.now() = t: the signature is checked first,
\* then the exp claim against the clock in whole seconds.
verifyToken(token, t) ==
    IF ~Jwt(token).sigOk THEN "Invalid token"
    ELSE IF (t \div 1000) >= Jwt(token).exp THEN "Token has expired"
    ELSE "ok"

NoKeyRec == [exists |-> FALSE, isActive |-> FALSE, expiresAt |-> NoExpiry,
             userId |-> "u1", lastUsedAt |-> NoExpiry]

KeyRecs ==
    {NoKeyRec} \cup
    {[exists |-> TRUE, isActive |-> a, expiresAt |-> e, userId |-> "u1", lastUsedAt |-> NoExpiry] :
        a \in BOOLEAN, e \in {NoExpiry, KeyExpiresAt}}

\* prisma.apiKey.findUnique({ where: { key } })
FindKeyRec(key) == IF key \in KeyNames THEN apiKeys[key] ELSE NoKeyRec

KeyExpired(rec, t) == rec.expiresAt # NoExpiry /\ rec.expiresAt < t

IdleAuReq == [authHeader |-> NoHeader, apiKey |-> NoKeyHeader, id |-> "u1",
              rec |-> NoKeyRec, at |-> 0]

NoRes == [done |-> FALSE, status |-> 0, code |-> "", next |-> FALSE, user |-> "",
          apiKey |-> "", authHeader |-> NoHeader, keyHeader |-> NoKeyHeader]

\* No request is being authenticated.
AuIdle ==
    /\ auPc = "idle"
    /\ auReq = IdleAuReq
    /\ auRes = NoRes

\* The database before any registration: no user, no key.
AuInit ==
    /\ users = [u \in Users |-> "missing"]
    /\ apiKeys = [k \in KeyNames |-> NoKeyRec]
    /\ AuIdle

\* The database after any history of registrations and key management: a key
\* belongs to a user that exists (foreign key apiKey.userId).
AuInitAny ==
    /\ users \in [Users -> {"missing", "inactive", "active"}]
    /\ apiKeys \in [KeyNames -> KeyRecs]
    /\ \A k \in KeyNames : apiKeys[k].exists => users[apiKeys[k].userId] # "missing"
    /\ AuIdle

\* res.status(401).json({ code }) and return.
Respond401(h, k, code) ==
    /\ auRes' = [NoRes EXCEPT !.done = TRUE, !.status = 401, !.code = code,
                              !.authHeader = h, !.keyHeader = k]
    /\ auPc' = "idle"
    /\ auReq' = IdleAuReq

\* req.user = user; req.apiKey = apiKey; next().
CallNext(h, k, user, apiKey) ==
    /\ auRes' = [NoRes EXCEPT !.done = TRUE, !.next = TRUE, !.user = user,
                              !.apiKey = apiKey, !.authHeader = h, !.keyHeader = k]
    /\ auPc' = "idle"
    /\ auReq' = IdleAuReq

\* authenticateToken up to the await of prisma.user.findUnique.
authenticateToken(h, k) ==
    LET token == extractTokenFromHeader(h)
        verdict == verifyToken(token, now)
    IN  IF token = "" THEN Respond401(h, k, "TOKEN_REQUIRED")
        ELSE IF verdict = "Token has expired" THEN Respond401(h, k, "TOKEN_EXPIRED")
        ELSE IF verdict = "Invalid token" THEN Respond401(h, k, "INVALID_TOKEN")
        ELSE /\ auPc' = "findUser"
             /\ auReq' = [IdleAuReq EXCEPT !.authHeader = h, !.apiKey = k,
                                           !.id = Jwt(token).id, !.at = now]
             /\ auRes' = NoRes

\* authenticateApiKey up to the await of prisma.apiKey.findUnique.
authenticateApiKey(h, k) ==
    IF ~TruthyKey(k) THEN Respond401(h, k, "API_KEY_REQUIRED")
    ELSE /\ auPc' = "findKey"
         /\ auReq' = [IdleAuReq EXCEPT !.authHeader = h, !.apiKey = k]
         /\ auRes' = NoRes

\* authenticate: a request arrives with its two headers.
authenticate ==
    /\ auPc = "idle"
    /\ \E h \in AuthHeaders, k \in KeyHeaders :
          IF Truthy(h) THEN authenticateToken(h, k)
          ELSE IF TruthyKey(k) THEN authenticateApiKey(h, k)
          ELSE Respond401(h, k, "AUTH_REQUIRED")
    /\ UNCHANGED <<users, apiKeys>>

UserActiveAlways(u) == TRUE

UserActive(u) == users[u] = "active"

\* authenticateToken after prisma.user.findUnique: the query throws (ok is
\* FALSE) or yields the user, and the handler answers without another await.
FindUser ==
    /\ auPc = "findUser"
    /\ \E ok \in BOOLEAN :
          LET h == auReq.authHeader
              k == auReq.apiKey
          IN  IF ~ok THEN Respond401(h, k, "AUTH_FAILED")
              ELSE IF users[auReq.id] = "missing" THEN Respond401(h, k, "USER_NOT_FOUND")
              ELSE IF ~UserActive(auReq.id) THEN Respond401(h, k, "ACCOUNT_DEACTIVATED")
              ELSE CallNext(h, k, auReq.id, "")
    /\ UNCHANGED <<users, apiKeys>>

\* authenticateApiKey after prisma.apiKey.findUnique, up to the await of
\* prisma.apiKey.update.
FindKey ==
    /\ auPc = "findKey"
    /\ \E ok \in BOOLEAN :
          LET h == auReq.authHeader
              k == auReq.apiKey
              rec == FindKeyRec(k.value)
          IN  IF ~ok THEN Respond401(h, k, "AUTH_FAILED")
              ELSE IF ~rec.exists THEN Respond401(h, k, "INVALID_API_KEY")
              ELSE IF ~rec.isActive THEN Respond401(h, k, "API_KEY_DEACTIVATED")
              ELSE IF KeyExpired(rec, now) THEN Respond401(h, k, "API_KEY_EXPIRED")
              ELSE IF ~UserActive(rec.userId) THEN Respond401(h, k, "USER_DEACTIVATED")
              ELSE /\ auPc' = "update"
                   /\ auReq' = [auReq EXCEPT !.rec = rec, !.at = now]
                   /\ auRes' = NoRes
    /\ UNCHANGED <<users, apiKeys>>

\* authenticateApiKey after prisma.apiKey.update of lastUsedAt: the update
\* throws when the query fails or the record is gone, else next() is called.
UpdateLastUsed ==
    /\ auPc = "update"
    /\ \E ok \in BOOLEAN :
          LET h == auReq.authHeader
              k == auReq.apiKey
          IN  IF ~ok \/ ~apiKeys[k.value].exists
              THEN Respond401(h, k, "AUTH_FAILED") /\ UNCHANGED apiKeys
              ELSE /\ apiKeys' = [apiKeys EXCEPT ![k.value].lastUsedAt = now]
                   /\ CallNext(h, k, auReq.rec.userId, k.value)
    /\ UNCHANGED users

\* AuthService.deactivateApiKey by the owner of the key.
deactivateApiKey ==
    /\ \E k \in KeyNames :
          /\ apiKeys[k].exists /\ apiKeys[k].isActive
          /\ apiKeys' = [apiKeys EXCEPT ![k].isActive = FALSE]
    /\ auRes' = NoRes
    /\ UNCHANGED <<users, auPc, auReq>>

\* AuthService.deleteApiKey by the owner of the key.
deleteApiKey ==
    /\ \E k \in KeyNames :
          /\ apiKeys[k].exists
          /\ apiKeys' = [apiKeys EXCEPT ![k] = NoKeyRec]
    /\ auRes' = NoRes
    /\ UNCHANGED <<users, auPc, auReq>>

AuNext ==
    \/ (authenticate /\ UNCHANGED <<rlVars, inVars, smsVars, shVars>>)
    \/ (FindUser /\ UNCHANGED <<rlVars, inVars, smsVars, shVars>>)
    \/ (FindKey /\ UNCHANGED <<rlVars, inVars, smsVars, shVars>>)
    \/ (UpdateLastUsed /\ UNCHANGED <<rlVars, inVars, smsVars, shVars>>)
    \/ (deactivateApiKey /\ UNCHANGED <<rlVars, inVars, smsVars, shVars>>)
    \/ (deleteApiKey /\ UNCHANGED <<rlVars, inVars, smsVars, shVars>>)
    \/ (Tick /\ auRes' = NoRes /\ UNCHANGED <<users, apiKeys, auPc, auReq>> /\ UNCHANGED <<inVars, smsVars, shVars>>)


(***************************************************************************)
(* SmsService: sendSms, formatPhoneNumber and the Twilio client it calls.  *)
(***************************************************************************)

\* error.code of an error that carries no code (undefined).
NoCode == 0

\* Twilio error codes the catch block of sendSms tells apart, and one more.
TwilioCodes == {21211, 21408, 21610, 30001, 30002, 30003, 20003}

\* What client.messages.create can do: resolve, reject with a Twilio
\* RestException (numeric code), or reject with an error without code.
ProviderOutcomes == {[ok |-> TRUE, code |-> NoCode]} \cup
                    {[ok |-> FALSE, code |-> c] : c \in TwilioCodes \cup {NoCode}}

\* Phone numbers as the characters of options.to.
PhoneNumbers == {<<"+", "4", "4", "7">>, <<"5", "5", "-", "1">>, <<"(", "5", ")", " ", "2">>}

Digits == {"0", "1", "2", "4", "5", "7"}

\* phoneNumber.replace(/[^\d+]/g, '')
RECURSIVE StripNonDigits(_)
StripNonDigits(s) ==
    IF s = <<>> THEN <<>>
    ELSE IF Head(s) \in Digits \cup {"+"} THEN <<Head(s)>> \o StripNonDigits(Tail(s))
    ELSE StripNonDigits(Tail(s))

formatPhoneNumber(phoneNumber) ==
    LET formatted == StripNonDigits(phoneNumber)
    IN  IF formatted # <<>> /\ Head(formatted) = "+" THEN formatted
        ELSE <<"+", "1">> \o formatted

\* options.message.length of the messages sent.
MessageLengths == {1, SmsMaxLength, SmsMaxLength + 1}

\* An error as the catch block sees it: error.code is a number (Twilio), a
\* string (AppError) or undefined; === against a number is false for the
\* last two.
TwilioError(c) == [isApp |-> FALSE, num |-> c, code |-> "", statusCode |-> 0]

AppError(statusCode, code) == [isApp |-> TRUE, num |-> NoCode, code |-> code, statusCode |-> statusCode]

CodeIs(error, n) == ~error.isApp /\ error.num # NoCode /\ error.num = n

\* The catch block of sendSms: the AppError it throws for the error caught.
ClassifyAll500(error) == AppError(500, "SMS_SEND_FAILED")

Classify(error) ==
    IF CodeIs(error, 21211) THEN AppError(400, "INVALID_PHONE_NUMBER")
    ELSE IF CodeIs(error, 21408) THEN AppError(400, "PHONE_PERMISSION_DENIED")
    ELSE IF CodeIs(error, 21610) THEN AppError(400, "PHONE_BLACKLISTED")
    ELSE IF CodeIs(error, 30001) THEN AppError(503, "SMS_QUEUE_FULL")
    ELSE IF CodeIs(error, 30002) THEN AppError(503, "SMS_ACCOUNT_SUSPENDED")
    ELSE IF CodeIs(error, 30003) THEN AppError(400, "SMS_UNREACHABLE")
    ELSE AppError(500, "SMS_SEND_FAILED")

IdleSmsCall == [to |-> <<>>, formatted |-> <<>>, length |-> 0]

NoSmsOut == [done |-> FALSE, threw |-> FALSE, error |-> AppError(0, ""),
             cause |-> AppError(0, ""), caught |-> FALSE, called |-> FALSE,
             length |-> 0, to |-> <<>>]

\* No sendSms call is running and the provider has received nothing.
SmsIdle ==
    /\ smsPc = "idle"
    /\ smsCall = IdleSmsCall
    /\ smsOut = NoSmsOut
    /\ smsLog = <<>>

\* The service constructed without Twilio credentials.
SmsInit == smsConfigured = FALSE /\ SmsIdle

\* The service constructed with or without Twilio credentials.
SmsInitAny == smsConfigured \in BOOLEAN /\ SmsIdle

\* The call ends with the error thrown; cause is the error the catch block
\* caught, if it was thrown from the catch block.
SmsThrow(error, cause, caught, called, c) ==
    /\ smsOut' = [NoSmsOut EXCEPT !.done = TRUE, !.threw = TRUE, !.error = error,
                                  !.cause = cause, !.caught = caught, !.called = called,
                                  !.length = c.length, !.to = c.formatted]
    /\ smsPc' = "idle"
    /\ smsCall' = IdleSmsCall

\* sendSms up to the await of client.messages.create.
sendSms ==
    /\ smsPc = "idle"
    /\ Len(smsLog) < MaxSms
    /\ \E to \in PhoneNumbers, length \in MessageLengths :
          LET c == [to |-> to, formatted |-> formatPhoneNumber(to), length |-> length]
              tooLong == AppError(400, "SMS_MESSAGE_TOO_LONG")
          IN  IF ~smsConfigured
              THEN SmsThrow(AppError(503, "SMS_SERVICE_UNAVAILABLE"), AppError(0, ""), FALSE, FALSE,
                            [c EXCEPT !.formatted = <<>>])
              ELSE IF length > SmsMaxLength
              THEN SmsThrow(Classify(tooLong), tooLong, TRUE, FALSE, c)
              ELSE /\ smsPc' = "create"
                   /\ smsCall' = c
                   /\ smsOut' = NoSmsOut
    /\ UNCHANGED <<smsConfigured, smsLog>>

\* client.messages.create settles: the provider has the request; sendSms
\* returns the sid and status, or its catch block throws.
Create ==
    /\ smsPc = "create"
    /\ smsLog' = Append(smsLog, [to |-> smsCall.formatted, length |-> smsCall.length])
    /\ \E o \in ProviderOutcomes :
          IF o.ok
          THEN /\ smsOut' = [NoSmsOut EXCEPT !.done = TRUE, !.called = TRUE,
                                             !.length = smsCall.length, !.to = smsCall.formatted]
               /\ smsPc' = "idle"
               /\ smsCall' = IdleSmsCall
          ELSE SmsThrow(Classify(TwilioError(o.code)), TwilioError(o.code), TRUE, TRUE, smsCall)
    /\ UNCHANGED smsConfigured

SmsNext ==
    \/ (sendSms /\ UNCHANGED <<rlVars, inVars, auVars, shVars>>)
    \/ (Create /\ UNCHANGED <<rlVars, inVars, auVars, shVars>>)


(***************************************************************************)
(* Graceful shutdown: gracefulShutdown, the signal handlers, and the       *)
(* disconnect functions it awaits.                                         *)
(***************************************************************************)

\* process.exitCode of a process that has not exited.
Running == -1

\* The calls of gracefulShutdown a run can hold: one per signal received.
Shutdowns == 1..MaxSignals

\* The time of a call that has not been made.
NoSignal == -4

ShTimes == 0..(LastSignalAt + ShutdownTimeoutMs + ShTickMs)

\* The server listening with database and Redis connected (after startServer).
ShInit ==
    /\ shNow = 0
    /\ http = "listening"
    /\ conns = 0
    /\ db = "connected"
    /\ redis = "connected"
    /\ shPc = [i \in Shutdowns |-> "none"]
    /\ shSignalAt = [i \in Shutdowns |-> NoSignal]
    /\ exitCode = Running

\* The same with some client connections open.
ShInitAny ==
    /\ shNow = 0
    /\ http = "listening"
    /\ conns \in 0..MaxConns
    /\ db = "connected"
    /\ redis = "connected"
    /\ shPc = [i \in Shutdowns |-> "none"]
    /\ shSignalAt = [i \in Shutdowns |-> NoSignal]
    /\ exitCode = Running

\* A client connects: the server accepts while it listens.
ConnOpen ==
    /\ exitCode = Running
    /\ http = "listening"
    /\ conns < MaxConns
    /\ conns' = conns + 1
    /\ UNCHANGED <<shNow, http, db, redis, shPc, shSignalAt, exitCode>>

\* A client connection ends.
ConnEnd ==
    /\ exitCode = Running
    /\ conns > 0
    /\ conns' = conns - 1
    /\ UNCHANGED <<shNow, http, db, redis, shPc, shSignalAt, exitCode>>

\* process.on('SIGTERM' | 'SIGINT' | ...): gracefulShutdown(signal) calls
\* httpServer.close(callback), which stops the server from accepting, and
\* sets the 30 s timer.
gracefulShutdown ==
    /\ exitCode = Running
    /\ shNow <= LastSignalAt
    /\ \E i \in Shutdowns :
          /\ shPc[i] = "none"
          /\ \A j \in Shutdowns : j < i => shPc[j] # "none"
          /\ shPc' = [shPc EXCEPT ![i] = "waitClose"]
          /\ shSignalAt' = [shSignalAt EXCEPT ![i] = shNow]
    /\ http' = IF http = "listening" THEN "closing" ELSE http
    /\ UNCHANGED <<shNow, conns, db, redis, exitCode>>

\* The server emits 'close' once it has stopped listening and its connections
\* have ended.
DrainedAlways == TRUE

Drained == conns = 0

\* The callback of httpServer.close runs, up to the await in disconnectDatabase.
HttpClosed ==
    /\ exitCode = Running
    /\ \E i \in Shutdowns :
          /\ shPc[i] = "waitClose"
          /\ shPc' = [shPc EXCEPT ![i] = "dbDisc"]
    /\ http # "listening"
    /\ Drained
    /\ http' = "closed"
    /\ UNCHANGED <<shNow, conns, db, redis, shSignalAt, exitCode>>

\* prisma.$disconnect() settles (an error is logged by disconnectDatabase);
\* the callback goes on to the await in disconnectRedis.
DbDisconnected ==
    /\ exitCode = Running
    /\ \E i \in Shutdowns :
          /\ shPc[i] = "dbDisc"
          /\ shPc' = [shPc EXCEPT ![i] = "redisDisc"]
    /\ \E ok \in BOOLEAN :
          db' = IF ok \/ db = "disconnected" THEN "disconnected" ELSE "error"
    /\ UNCHANGED <<shNow, http, conns, redis, shSignalAt, exitCode>>

\* redisConnection.disconnect() settles (an error is logged by
\* disconnectRedis); the callback calls process.exit(0).
RedisDisconnected ==
    /\ exitCode = Running
    /\ \E i \in Shutdowns :
          /\ shPc[i] = "redisDisc"
          /\ shPc' = [shPc EXCEPT ![i] = "done"]
    /\ \E ok \in BOOLEAN :
          redis' = IF ok \/ redis = "disconnected" THEN "disconnected" ELSE "error"
    /\ exitCode' = 0
    /\ UNCHANGED <<shNow, http, conns, db, shSignalAt>>

\* The timer of call i has run out.
TimerDue(i) == shSignalAt[i] # NoSignal /\ shNow >= shSignalAt[i] + ShutdownTimeoutMs

\* setTimeout(() => process.exit(1), 30000)
ForcedExit ==
    /\ exitCode = Running
    /\ \E i \in Shutdowns : TimerDue(i)
    /\ exitCode' = 1
    /\ UNCHANGED <<shNow, http, conns, db, redis, shPc, shSignalAt>>

\* Time passes while the process runs; a timer that is due fires before more
\* time passes.
ShTick ==
    /\ exitCode = Running
    /\ \A i \in Shutdowns : ~TimerDue(i)
    /\ shNow + ShTickMs \in ShTimes
    /\ shNow' = shNow + ShTickMs
    /\ UNCHANGED <<http, conns, db, redis, shPc, shSignalAt, exitCode>>

ShNext ==
    \/ (ConnOpen /\ UNCHANGED <<rlVars, inVars, auVars, smsVars>>)
    \/ (ConnEnd /\ UNCHANGED <<rlVars, inVars, auVars, smsVars>>)
    \/ (gracefulShutdown /\ UNCHANGED <<rlVars, inVars, auVars, smsVars>>)
    \/ (HttpClosed /\ UNCHANGED <<rlVars, inVars, auVars, smsVars>>)
    \/ (DbDisconnected /\ UNCHANGED <<rlVars, inVars, auVars, smsVars>>)
    \/ (RedisDisconnected /\ UNCHANGED <<rlVars, inVars, auVars, smsVars>>)
    \/ (ForcedExit /\ UNCHANGED <<rlVars, inVars, auVars, smsVars>>)
    \/ (ShTick /\ UNCHANGED <<rlVars, inVars, auVars, smsVars>>)


Init == RlInit /\ InInit /\ inFails = 0 /\ AuInit /\ SmsInit /\ ShInit

Next == RlNext

Spec == Init /\ [][Next]_vars

\* The in-app service with a reachable cache, the rate limiter at rest.
InitInApp == RlInit /\ InInit /\ inFails = 0 /\ AuInit /\ SmsInit /\ ShInit

NextInApp == InNext

SpecInApp == InitInApp /\ [][NextInApp]_vars

\* One call at a time, a reachable cache, TTLs running out.
SpecInAppSerial == InitInApp /\ [][InNextSerial]_vars

\* The in-app service with cache commands that can fail.
InitInAppFaulty == RlInit /\ InInit /\ inFails = MaxCacheFailures /\ AuInit /\ SmsInit /\ ShInit

SpecInAppFaulty == InitInAppFaulty /\ [][NextInApp]_vars

\* One call at a time, cache commands that can fail, TTLs running out.
SpecInAppSerialFaulty == InitInAppFaulty /\ [][InNextSerial]_vars

\* The authentication middleware over every database and every pair of headers.
InitAuth == RlInit /\ InInit /\ inFails = 0 /\ AuInitAny /\ SmsInit /\ ShInit

SpecAuth == InitAuth /\ [][AuNext]_vars

\* sendSms over every recipient, message length and provider outcome.
InitSms == RlInit /\ InInit /\ inFails = 0 /\ AuInit /\ SmsInitAny /\ ShInit

SpecSms == InitSms /\ [][SmsNext]_vars

\* Shutdown: the event loop runs a timer that is due and lets time pass.
InitShutdown == RlInit /\ InInit /\ inFails = 0 /\ AuInit /\ SmsInit /\ ShInitAny

SpecShutdown == InitShutdown /\ [][ShNext]_vars /\ WF_shVars(ForcedExit) /\ WF_shVars(ShTick)

(***************************************************************************)
(* Rate limiter: the claims.                                               *)
(***************************************************************************)
Min(a, b) == IF a < b THEN a ELSE b

\* The step taken is Respond(p): the call of handler p gets its answer.
RespondStep(p) == rlPc[p] = "respond" /\ rlPc'[p] # "respond"

HistOf(p) == <<rlCall[p].lim, rlCall[p].identifier, rlCall[p].t>>

AnsweredNext(p) ==
    /\ rlHist'[HistOf(p)].next = rlHist[HistOf(p)].next + 1
    /\ rlHist'[HistOf(p)].r429 = rlHist[HistOf(p)].r429

Answered429(p) ==
    /\ rlHist'[HistOf(p)].r429 = rlHist[HistOf(p)].r429 + 1
    /\ rlHist'[HistOf(p)].next = rlHist[HistOf(p)].next

\* A call of limiter l for ip in the window at windowStart is in flight.
Pending(l, ip, windowStart) ==
    \E p \in Procs : /\ InFlight(p)
                     /\ rlCall[p].lim = l
                     /\ rlCall[p].identifier = ip
                     /\ AlignedWindow(rlCall[p].t, Limiter(l).windowMs) = windowStart

\* The store was reachable for every call of limiter l in the window, and no
\* other limiter instance has used the window's key.
Alone(l, ip, windowStart) ==
    /\ SumOver(WindowCalls(l, ip, windowStart), "f") = 0
    /\ SumOver(ForeignCalls(l, ip, windowStart), "n") = 0
    /\ SumOver(ForeignCalls(l, ip, windowStart), "f") = 0

WindowStarts(l) == {AlignedWindow(t, Limiter(l).windowMs) : t \in Times}

\* Every instant of [from, to) lies in a window in which limiter l is alone.
SpanAlone(l, ip, from, to) ==
    \A t \in Times : t >= from /\ t < to => Alone(l, ip, AlignedWindow(t, Limiter(l).windowMs))

AllowedIn(l, ip, from, to) == SumOver(CallsIn(l, ip, from, to), "next")

\* C1: with a reachable store and one limiter instance using the key, the
\* calls for one identifier in one aligned window are answered in the order in
\* which they reach the counter: the first maxRequests of them are allowed
\* (next()), every later one is denied (429), so exactly maxRequests are allowed.
C1_FirstLAllowed ==
    [][\A p \in Procs :
          (RespondStep(p) /\ rlCall[p].ok /\ rlCall[p].alone) =>
              IF rlCall[p].rank <= Limiter(rlCall[p].lim).maxRequests
              THEN AnsweredNext(p) ELSE Answered429(p)]_vars

C1_Witness ==
    \E l \in LimiterNames, ip \in Ips : \E ws \in WindowStarts(l) :
        /\ Alone(l, ip, ws)
        /\ SumOver(WindowCalls(l, ip, ws), "next") = Limiter(l).maxRequests
        /\ SumOver(WindowCalls(l, ip, ws), "r429") >= 1

\* C2 as stated: in any sliding span of length 2 * windowMs at most
\* 2 * maxRequests calls for one identifier are allowed (store reachable).
C2_TwoLInTwoW ==
    \A l \in LimiterNames, ip \in Ips, s \in Times :
        SpanAlone(l, ip, s, s + 2 * Limiter(l).windowMs) =>
            AllowedIn(l, ip, s, s + 2 * Limiter(l).windowMs) <= 2 * Limiter(l).maxRequests

\* C2 as amended: a span of length 2 * windowMs can meet three aligned windows,
\* and at most 3 * maxRequests calls for one identifier are allowed within it.
C2_ThreeLInTwoW ==
    \A l \in LimiterNames, ip \in Ips, s \in Times :
        SpanAlone(l, ip, s, s + 2 * Limiter(l).windowMs) =>
            AllowedIn(l, ip, s, s + 2 * Limiter(l).windowMs) <= 3 * Limiter(l).maxRequests

C2_Witness ==
    \E l \in LimiterNames, ip \in Ips, s \in Times :
        /\ SpanAlone(l, ip, s, s + 2 * Limiter(l).windowMs)
        /\ AllowedIn(l, ip, s, s + 2 * Limiter(l).windowMs) = 3 * Limiter(l).maxRequests

\* C3: in any sliding span of length windowMs at most 2 * maxRequests calls
\* for one identifier are allowed (store reachable, one limiter on the key);
\* the witness is a span across a window boundary with exactly 2 * maxRequests.
C3_TwoLInW ==
    \A l \in LimiterNames, ip \in Ips, s \in Times :
        SpanAlone(l, ip, s, s + Limiter(l).windowMs) =>
            AllowedIn(l, ip, s, s + Limiter(l).windowMs) <= 2 * Limiter(l).maxRequests

C3_Witness ==
    \E l \in LimiterNames, ip \in Ips, s \in Times :
        /\ AlignedWindow(s, Limiter(l).windowMs) # s
        /\ SpanAlone(l, ip, s, s + Limiter(l).windowMs)
        /\ AllowedIn(l, ip, s, s + Limiter(l).windowMs) = 2 * Limiter(l).maxRequests

\* C4: the decisions of a limiter instance depend only on the calls made to
\* that instance: with a reachable store, of the n calls made to it for one
\* identifier in one window exactly min(n, maxRequests) are allowed, whatever
\* calls the other instances received.
C4_Independent ==
    \A l \in LimiterNames, ip \in Ips : \A ws \in WindowStarts(l) :
        (/\ SumOver(WindowCalls(l, ip, ws), "f") = 0
         /\ SumOver(ForeignCalls(l, ip, ws), "f") = 0
         /\ ~Pending(l, ip, ws)) =>
            SumOver(WindowCalls(l, ip, ws), "next")
                = Min(SumOver(WindowCalls(l, ip, ws), "n"), Limiter(l).maxRequests)

\* C5: a call on which a Redis command failed is allowed and the middleware
\* calls next(), never 429; the failure has been logged.
C5_FailOpen ==
    [][\A p \in Procs :
          (RespondStep(p) /\ ~rlCall[p].ok) =>
              AnsweredNext(p) /\ rlHist[HistOf(p)].f >= 1]_vars

C5_Witness ==
    \E k \in HistKeys : rlHist[k].f >= 1 /\ rlHist[k].next >= 1 /\ rlHist[k].n = 0

\* C6: calls whose awaits interleave observe distinct counter values: two
\* calls in flight on one key hold different values, a call alone on its key
\* holds its own number 1..N, and when all N calls of a window are answered
\* exactly min(N, maxRequests) of them were allowed.
SameKey(p, q) ==
    RateKey(rlCall[p].identifier, WindowStart(rlCall[p].t, Limiter(rlCall[p].lim).windowMs))
        = RateKey(rlCall[q].identifier, WindowStart(rlCall[q].t, Limiter(rlCall[q].lim).windowMs))

C6_AtomicIncrement ==
    /\ \A p, q \in Procs :
          (p # q /\ InFlight(p) /\ InFlight(q) /\ rlCall[p].ok /\ rlCall[q].ok /\ SameKey(p, q))
              => rlCall[p].current # rlCall[q].current
    /\ \A p \in Procs :
          (InFlight(p) /\ rlCall[p].ok /\ rlCall[p].alone) => rlCall[p].current = rlCall[p].rank
    /\ \A l \in LimiterNames, ip \in Ips : \A ws \in WindowStarts(l) :
          (Alone(l, ip, ws) /\ ~Pending(l, ip, ws)) =>
              SumOver(WindowCalls(l, ip, ws), "next")
                  = Min(SumOver(WindowCalls(l, ip, ws), "n"), Limiter(l).maxRequests)

C6_Witness ==
    \E p, q \in Procs :
        /\ p # q /\ rlPc[p] = "respond" /\ rlPc[q] = "respond"
        /\ rlCall[p].ok /\ rlCall[q].ok /\ rlCall[p].alone /\ rlCall[q].alone
        /\ SameKey(p, q)
        /\ rlCall[p].current > Limiter(rlCall[p].lim).maxRequests

\* C7: every counter key has a TTL and expires no later than
\* windowStart + windowMs (a key whose creating call is between INCR and
\* EXPIRE excepted).
C7_KeysExpireWithWindow ==
    \A k \in Keys :
        (rlCount[k] > 0
         /\ ~\E p \in Procs : rlPc[p] = "expire"
                /\ RateKey(rlCall[p].identifier,
                           WindowStart(rlCall[p].t, Limiter(rlCall[p].lim).windowMs)) = k) =>
            /\ rlExpiry[k] # NoTtl
            /\ \E l \in LimiterNames : /\ k[2] \in WindowStarts(l)
                                       /\ rlExpiry[k] <= k[2] + Limiter(l).windowMs

(***************************************************************************)
(* In-app service: the claims.                                             *)
(***************************************************************************)
\* The step taken is SendNotification: a notification id is drawn.
SendStep == nextId' = nextId + 1

\* The recipient and the delivered flag of the call a SendNotification step made:
\* either the call returned at once or it went on to storeNotification.
SendOutcome ==
    IF inRet'.made THEN [to |-> inRet'.to, delivered |-> inRet'.delivered]
    ELSE LET p == CHOOSE q \in Procs : inPc[q] = "idle" /\ inPc'[q] = "storeBody"
         IN  [to |-> inCall'[p].to, delivered |-> inCall'[p].delivered]

\* C8: deliverNotification, as run by sendNotification: when the room of the
\* recipient has a session, the notification is emitted to exactly the sessions
\* of that room and delivered is true; when the room is empty nothing is
\* emitted and delivered is false.
C8_DeliverToRoom ==
    [][SendStep =>
          LET o == SendOutcome
          IN  IF rooms[o.to] # {}
              THEN /\ lastEmit'.event = "notification"
                   /\ lastEmit'.id = nextId
                   /\ lastEmit'.sessions = rooms[o.to]
                   /\ o.delivered
              ELSE /\ lastEmit' = NoEmit
                   /\ ~o.delivered]_vars

C8_Witness ==
    /\ lastEmit.event = "notification"
    /\ lastEmit.sessions = rooms["u1"]
    /\ Cardinality(lastEmit.sessions) = 2
    /\ \E p \in Procs : inCall[p].op = "send" /\ inCall[p].id = lastEmit.id /\ inCall[p].delivered

\* The step taken is StoreBody(p) and the body write reached the cache.
StoreBodyStep(p) == inPc[p] = "storeBody" /\ inPc'[p] = "storeGet"

\* C9: sendNotification stores the notification exactly when it was not
\* delivered or is persistent; a call that does not store leaves neither a body
\* nor a mailbox entry; the body and the mailbox are written with the TTL of
\* the caller, 86400 s when the caller gave none.
C9_StoreIffNeeded ==
    [][/\ \A p \in Procs : StoreBodyStep(p) =>
              /\ inCall[p].persistent \/ ~inCall[p].delivered
              /\ bodies'[inCall[p].id] =
                     [exists |-> TRUE, to |-> inCall[p].to, read |-> FALSE,
                      ttl |-> IF inCall[p].ttl = CallerTtl THEN CallerTtl ELSE 86400]
       /\ inRet'.made =>
              /\ inRet'.stored <=> (inRet'.persistent \/ ~inRet'.delivered)
              /\ inRet'.stored =>
                     /\ Head(idx'[inRet'.to]) = inRet'.id
                     /\ idxTtl'[inRet'.to] = IF inRet'.ttl = CallerTtl THEN CallerTtl ELSE 86400
              /\ ~inRet'.stored =>
                     /\ ~bodies'[inRet'.id].exists
                     /\ \A u \in Users : \A i \in 1..Len(idx'[u]) : idx'[u][i] # inRet'.id]_vars

C9_Witness ==
    /\ inRet.made /\ inRet.stored /\ inRet.delivered /\ inRet.persistent
    /\ inRet.ttl = 0
    /\ bodies[inRet.id].exists /\ bodies[inRet.id].ttl = 86400
    /\ \E i \in Ids : bodies[i].exists /\ bodies[i].ttl = CallerTtl

\* C10: the mailbox of every user lists at most MailboxCap notifications (100
\* in the program), whatever calls ran and however they interleaved.
C10_MailboxBounded == \A u \in Users : Len(idx[u]) <= MailboxCap

C10_Witness ==
    /\ inRet.made /\ inRet.evicted
    /\ Len(idx[inRet.to]) = MailboxCap
    /\ inOps > 0
    /\ \E p \in Procs : inPc[p] \in {"delSetIdx", "delBody", "allSet", "markSet"}

\* The ids of the notifications whose sendNotification call is still running.
SendsInFlight == {inCall[p].id : p \in {q \in Procs : inCall[q].op = "send"}}

\* Body i is referenced by the mailbox index of its recipient.
Referenced(i) == \E k \in 1..Len(idx[bodies[i].to]) : idx[bodies[i].to][k] = i

\* Every stored body of a finished send is referenced by its recipient's index.
NoOrphans == \A i \in Ids : (bodies[i].exists /\ i \notin SendsInFlight) => Referenced(i)

\* C11: a store that evicts drops the oldest entry of the full mailbox (the
\* last of the most-recent-first index), removes the body of that entry, and
\* leaves no stored body that its recipient's index does not reference.
C11_EvictOldestWithBody ==
    [][(inRet'.made /\ inRet'.evicted) =>
          LET old == idx[inRet'.to]
          IN  /\ Len(old) = MailboxCap
              /\ idx'[inRet'.to] = <<inRet'.id>> \o SubSeq(old, 1, Len(old) - 1)
              /\ ~bodies'[old[Len(old)]].exists
              /\ NoOrphans']_vars

\* No call is running.
AllIdle == \A p \in Procs : inPc[p] = "idle"

\* C12: every entry lives for its own TTL: between calls, an entry that was
\* not marked read and whose body has not yet expired is still listed in its
\* recipient's mailbox index (so that getUserNotifications reaches it), and
\* it carries a TTL that will expire it.
C12_IndependentTtl ==
    AllIdle => \A i \in Ids :
                  (bodies[i].exists /\ ~bodies[i].read) => (Referenced(i) /\ bodies[i].ttl > 0)

\* C13: the mailbox is mutated atomically: once sendNotification calls for an
\* offline recipient (no other call was made) have all returned, every
\* notification sent is in the recipient's index, as long as the cap is not
\* passed, and no stored body is left without an index reference.
C13_AtomicMailbox ==
    (AllIdle /\ inOps = 0) =>
        /\ NoOrphans
        /\ (nextId - 1 <= MailboxCap) => Len(idx["u1"]) = nextId - 1

\* The ids of list whose body is stored and unread, in the order of list.
RECURSIVE UnreadIn(_)
UnreadIn(list) ==
    IF list = <<>> THEN <<>>
    ELSE IF bodies[Head(list)].exists /\ ~bodies[Head(list)].read
         THEN <<Head(list)>> \o UnreadIn(Tail(list))
         ELSE UnreadIn(Tail(list))

\* The step taken ends sendPendingNotifications in handler p.
PendingDone(p) == inCall[p].op = "pending" /\ inPc[p] # "idle" /\ inPc'[p] = "idle"

\* C14: the flush that follows a join pushes, in one 'pending_notifications'
\* emit to the room of the user, every unread entry that the mailbox of the
\* user holds, and nothing when there is none.
C14_FlushAllUnread ==
    [][\A p \in Procs : PendingDone(p) =>
          LET u == inCall[p].to
              unread == UnreadIn(idx[u])
          IN  IF unread = <<>> THEN lastEmit' = NoEmit
              ELSE /\ lastEmit'.event = "pending_notifications"
                   /\ lastEmit'.ids = unread
                   /\ lastEmit'.sessions = rooms[u]]_vars

\* The step taken is the join of a socket or a step of the flush that follows it.
FlushStep == \E p \in Procs : /\ inCall[p].op = "pending" \/ inCall'[p].op = "pending"
                              /\ inPc'[p] # inPc[p] \/ inCall'[p] # inCall[p]

\* The step taken is the cache.set of a mark call that writes body i.
MarkWrites(i) ==
    \E p \in Procs :
        \/ inPc[p] = "markSet" /\ inCall[p].id = i /\ inPc'[p] = "idle"
        \/ inPc[p] = "allSet" /\ Head(inCall[p].found) = i /\ inCall'[p] # inCall[p]

\* C15: read status is independent of delivery: the step that delivers live
\* and the steps of a join and its flush change neither the mailbox index nor
\* any stored body; a body is stored unread; read becomes true only by the
\* write of markNotificationAsRead or markAllNotificationsAsRead, and a
\* stored body never goes back from read to unread.
C15_ReadOnlyByMark ==
    [][/\ (SendStep \/ FlushStep) => (bodies' = bodies /\ idx' = idx /\ idxTtl' = idxTtl)
       /\ \A i \in Ids :
             /\ (bodies'[i].exists /\ bodies'[i].read /\ ~(bodies[i].exists /\ bodies[i].read))
                    => MarkWrites(i)
             /\ (bodies[i].exists /\ bodies[i].read /\ bodies'[i].exists) => bodies'[i].read]_vars

C15_Witness ==
    /\ lastEmit.event = "pending_notifications"
    /\ \E i \in Ids : lastEmit.ids = <<i>> /\ bodies[i].exists /\ ~bodies[i].read
    /\ \E j \in Ids : bodies[j].exists /\ bodies[j].read

\* Handler p returns in the step taken.
Returns(p) == inPc[p] # "idle" /\ inPc'[p] = "idle"

\* C16: when a mark or delete call broadcasts its event, the event goes to the
\* sessions of the user's room and the store is already in the state the
\* event announces: the notification is stored as read, every entry of the
\* user's mailbox is read, the notification is neither stored nor listed.
C16_BroadcastMatchesStore ==
    [][\A p \in Procs :
          (Returns(p) /\ inCall[p].op \in {"markRead", "markAll", "delete"}) =>
              LET u == inCall[p].to
                  id == inCall[p].id
              IN  /\ lastEmit'.sessions = rooms[u]
                  /\ lastEmit'.event = "notification_read" =>
                         (bodies'[id].exists /\ bodies'[id].read)
                  /\ lastEmit'.event = "all_notifications_read" =>
                         \A k \in 1..Len(idx'[u]) :
                             bodies'[idx'[u][k]].exists => bodies'[idx'[u][k]].read
                  /\ lastEmit'.event = "notification_deleted" =>
                         /\ ~bodies'[id].exists
                         /\ \A k \in 1..Len(idx'[u]) : idx'[u][k] # id]_vars

\* The number of times id i occurs in list.
Occurrences(list, i) == Cardinality({k \in 1..Len(list) : list[k] = i})

\* C17: a notification sent while the room of the recipient is empty is not
\* delivered; a persistent one that was not delivered is stored and at the
\* head of the recipient's mailbox when the call returns; the flush of a join
\* pushes every entry that is in the mailbox of the user, stored and unread,
\* exactly once.
C17_OfflinePersistentFlushedOnce ==
    [][/\ (SendStep /\ rooms[SendOutcome.to] = {}) => ~SendOutcome.delivered
       /\ (inRet'.made /\ inRet'.persistent /\ ~inRet'.delivered) =>
              /\ inRet'.stored
              /\ bodies'[inRet'.id].exists
              /\ Head(idx'[inRet'.to]) = inRet'.id
       /\ \A p \in Procs : PendingDone(p) =>
              \A i \in Ids :
                  (bodies[i].exists /\ ~bodies[i].read /\ Occurrences(idx[inCall[p].to], i) > 0) =>
                      /\ lastEmit'.event = "pending_notifications"
                      /\ Occurrences(lastEmit'.ids, i) = 1]_vars

\* C18: the middleware answers every request exactly once, at the end of its
\* isAllowed call: with next() when the call was allowed (the counter is
\* within the limit, or the store failed), with 429 RATE_LIMIT_EXCEEDED when
\* it was denied; no other step calls next() or sends a response.
C18_NextXor429 ==
    [][/\ \A p \in Procs : RespondStep(p) =>
              /\ IF ~rlCall[p].ok \/ rlCall[p].current <= Limiter(rlCall[p].lim).maxRequests
                 THEN AnsweredNext(p) ELSE Answered429(p)
              /\ \A k \in HistKeys \ {HistOf(p)} :
                     rlHist'[k].next = rlHist[k].next /\ rlHist'[k].r429 = rlHist[k].r429
       /\ (~\E p \in Procs : RespondStep(p)) =>
              \A k \in HistKeys :
                  rlHist'[k].next = rlHist[k].next /\ rlHist'[k].r429 = rlHist[k].r429]_vars

C18_Witness ==
    /\ \A p \in Procs : rlPc[p] = "idle"
    /\ \E k \in HistKeys : rlHist[k].r429 >= 1 /\ rlHist[k].n >= 2
    /\ \E k \in HistKeys : rlHist[k].f >= 1 /\ rlHist[k].next >= 1
    /\ SumOver(HistKeys, "next") + SumOver(HistKeys, "r429")
           = SumOver(HistKeys, "n") + SumOver(HistKeys, "f")

(***************************************************************************)
(* Authentication middleware.                                              *)
(***************************************************************************)

\* The header h carries a token that generateToken signed and that has not
\* expired at instant t.
BearerValidAt(h, t) ==
    /\ h.present
    /\ Len(h.parts) = 2
    /\ h.parts[1] = "Bearer"
    /\ h.parts[2] \in Tokens
    /\ Jwt(h.parts[2]).sigOk
    /\ (t \div 1000) < Jwt(h.parts[2]).exp

\* The instant at which the finishing step's request had its token verified.
VerifiedAt == IF auPc = "idle" THEN now ELSE auReq.at

\* next() follows a token check: the header was valid when verified, and the
\* user the token names is in the database, active, and is req.user.
NextByToken ==
    /\ auPc = "findUser"
    /\ BearerValidAt(auRes'.authHeader, auReq.at)
    /\ auRes'.user = Jwt(auRes'.authHeader.parts[2]).id
    /\ users[auRes'.user] = "active"
    /\ auRes'.apiKey = ""

\* next() follows a key check: there is no usable Authorization header, the
\* key record read was of this key, active, not expired when read, its owner
\* is active and is req.user, and the key is still in the database.
NextByKey ==
    /\ auPc = "update"
    /\ ~(auRes'.authHeader.present /\ auRes'.authHeader.parts # <<"">>)
    /\ auRes'.keyHeader.present
    /\ auRes'.apiKey = auRes'.keyHeader.value
    /\ auRes'.apiKey \in KeyNames
    /\ auReq.rec.exists /\ auReq.rec.isActive
    /\ auReq.rec.expiresAt = NoExpiry \/ auReq.rec.expiresAt >= auReq.at
    /\ auRes'.user = auReq.rec.userId
    /\ users[auRes'.user] = "active"
    /\ apiKeys[auRes'.apiKey].exists
    /\ apiKeys'[auRes'.apiKey].lastUsedAt = now

\* The record the key check passes on is the database's record at that instant.
KeyReadIsCurrent ==
    (auPc = "findKey" /\ auPc' = "update") =>
        /\ auReq'.rec = apiKeys[auReq.apiKey.value]
        /\ auReq'.at = now

\* Every answer is either next() or 401, never both, and next() only follows
\* one of the two successful checks.
NextOnlyAuthenticated ==
    /\ auRes'.done =>
          /\ auRes'.next = (auRes'.status # 401)
          /\ auRes'.next => (NextByToken \/ NextByKey)
    /\ KeyReadIsCurrent

\* C19 as stated: the middleware calls next() only after a successful token or
\* key check and answers 401 otherwise, and a request whose Authorization
\* header is present but not a valid token is answered 401 whatever its
\* X-API-Key.
C19_AnyInvalidHeaderNotRescued ==
    [][/\ NextOnlyAuthenticated
       /\ (auRes'.done /\ auRes'.authHeader.present
              /\ ~BearerValidAt(auRes'.authHeader, VerifiedAt)) => ~auRes'.next]_vars

\* C19 amended: the middleware calls next() only after a successful token or
\* key check and answers 401 otherwise, and a request whose Authorization
\* header is a non-empty string that is not a valid token is answered 401
\* whatever its X-API-Key; an empty Authorization header counts as none.
C19_NonEmptyInvalidHeaderNotRescued ==
    [][/\ NextOnlyAuthenticated
       /\ (auRes'.done /\ auRes'.authHeader.present /\ auRes'.authHeader.parts # <<"">>
              /\ ~BearerValidAt(auRes'.authHeader, VerifiedAt)) => ~auRes'.next]_vars

\* A forged token came with a key that is in the database, active, without
\* expiry and owned by an active user, and the answer was 401.
C19_Witness ==
    /\ auRes.done /\ auRes.status = 401 /\ ~auRes.next
    /\ auRes.authHeader.parts = <<"Bearer", "forged">>
    /\ auRes.keyHeader.value = "k1"
    /\ apiKeys["k1"].exists /\ apiKeys["k1"].isActive /\ apiKeys["k1"].expiresAt = NoExpiry
    /\ users[apiKeys["k1"].userId] = "active"


(***************************************************************************)
(* Order of the mailbox.                                                   *)
(***************************************************************************)

\* Ids are issued in the order of the sendNotification calls; with one call
\* at a time that is the order of storage, so most-recent-first is: strictly
\* decreasing ids.
MostRecentFirst(list) ==
    \A j \in 1..Len(list), k \in 1..Len(list) : j < k => list[j] > list[k]

C21_FlushToJoinerOnly ==
    lastEmit.event = "pending_notifications" => Cardinality(lastEmit.sessions) <= 1


(***************************************************************************)
(* Mark all as read.                                                       *)
(***************************************************************************)

\* C22: when markAllNotificationsAsRead(U) completes, one call at a time and
\* with a reachable store, every entry of U's mailbox is stored as read.
C22_MarkAllMarksAll ==
    [][(Returns(1) /\ inCall[1].op = "markAll") =>
          \A k \in 1..Len(idx'[inCall[1].to]) :
              LET b == bodies'[idx'[inCall[1].to][k]]
              IN  b.exists => b.read]_vars


(***************************************************************************)
(* The SMS adapter.                                                        *)
(***************************************************************************)

\* Twilio codes of a permanently invalid recipient.
TerminalCodes == {21211, 21408, 21610, 30003}

\* The call that just ended threw from its catch block for a Twilio error
\* with one of the codes.
CausedBy(codes) == smsOut.caught /\ ~smsOut.cause.isApp /\ smsOut.cause.num \in codes

\* C23: every error that leaves sendSms is an AppError; it has status 400
\* when the provider rejected the recipient as permanently invalid (21211,
\* 21408, 21610, 30003) and a 5xx status for every other failure: 503 for a
\* full queue (30001), a suspended account (30002) and an unconfigured
\* service, 500 for any other error.
C23_ErrorsClassified ==
    (smsOut.done /\ smsOut.threw) =>
        /\ smsOut.error.isApp
        /\ IF CausedBy(TerminalCodes) THEN smsOut.error.statusCode = 400
           ELSE smsOut.error.statusCode \in {500, 503}
        /\ CausedBy({30001, 30002}) => smsOut.error.statusCode = 503
        /\ ~smsOut.caught => (~smsConfigured /\ smsOut.error.statusCode = 503)

\* The provider answered 30003 (unreachable) and sendSms threw a 400.
C23_Witness ==
    /\ smsOut.done /\ smsOut.threw /\ smsOut.called
    /\ CausedBy({30003})
    /\ smsOut.error.statusCode = 400

\* C29: a configured sendSms with a message longer than 1600 characters never
\* calls the provider, and the error that reaches the caller is the
\* validation error: status 400, code SMS_MESSAGE_TOO_LONG.
C29_TooLongIsValidationError ==
    /\ \A k \in 1..Len(smsLog) : smsLog[k].length <= SmsMaxLength
    /\ (smsOut.done /\ smsConfigured /\ smsOut.length > SmsMaxLength) =>
           /\ smsOut.threw /\ ~smsOut.called
           /\ smsOut.error.statusCode = 400
           /\ smsOut.error.code = "SMS_MESSAGE_TOO_LONG"


(***************************************************************************)
(* Graceful shutdown.                                                      *)
(***************************************************************************)

Signalled == shSignalAt[1] # NoSignal

Exited == exitCode # Running

\* The close callback of some gracefulShutdown call is at one of the positions.
CallbackAt(pcs) == \E i \in Shutdowns : shPc[i] \in pcs

\* The order of the shutdown: the server is closed, with no connection left,
\* before the database disconnect is begun; the database disconnect has
\* settled before the Redis disconnect is begun; exit code 0 follows both;
\* exit code 1 is the forced exit, no sooner than 30 s after a signal; and a
\* process that still runs has no timer overdue by a clock step or more.
ShutdownOrdered ==
    /\ (http = "closed" /\ ~Exited) => conns = 0
    /\ (CallbackAt({"dbDisc", "redisDisc", "done"}) \/ db # "connected") => http = "closed"
    /\ (CallbackAt({"redisDisc", "done"}) \/ redis # "connected") => db # "connected"
    /\ exitCode = 0 => (http = "closed" /\ db # "connected" /\ redis # "connected"
                         /\ CallbackAt({"done"}))
    /\ exitCode = 1 => \E i \in Shutdowns : TimerDue(i)
    /\ exitCode \in {Running, 0, 1}
    /\ Exited => Signalled
    /\ (Signalled /\ ~Exited) => shNow < shSignalAt[1] + ShutdownTimeoutMs + ShTickMs

\* C24: after a signal the HTTP server is closed first, then the database is
\* disconnected, then Redis, and process.exit(0) is called only after both
\* disconnects have settled; the process exits with code 1 when the sequence
\* has not ended 30 seconds after the signal; every signal leads to the exit
\* of the process.
C24_OrderedShutdownExits ==
    /\ []ShutdownOrdered
    /\ Signalled ~> Exited

\* A connection stayed open after the signal: the close callback never ran,
\* database and Redis are still connected, and the forced exit took place.
C24_Witness ==
    /\ exitCode = 1
    /\ conns > 0
    /\ http = "closing"
    /\ db = "connected" /\ redis = "connected"


(***************************************************************************)
(* Mark and delete act for the recipient only.                             *)
(***************************************************************************)

\* C25: markNotificationAsRead(id, userId) and deleteNotification(id, userId)
\* go past their first read only when the notification is stored and its 'to'
\* is userId; a call that finds no notification, or one of another user, ends
\* at once, changes no stored body, no mailbox index, no TTL and no room, and
\* emits nothing; a call that goes on writes only that notification and that
\* user's index, and emits only to that user's room.
C25_OnlyForRecipient ==
    [][/\ inMiss' # "none" =>
              /\ UNCHANGED <<bodies, idx, idxTtl, rooms, inPc, inCall>>
              /\ lastEmit' = NoEmit
       /\ \A p \in Procs :
              (inPc[p] = "idle" /\ inCall'[p].op \in {"markRead", "delete"}) =>
                  /\ bodies[inCall'[p].id].exists
                  /\ bodies[inCall'[p].id].to = inCall'[p].to
       /\ \A p \in Procs :
              (inCall[p].op \in {"markRead", "delete"} /\ inPc'[p] # inPc[p]) =>
                  /\ \A i \in Ids : i # inCall[p].id => bodies'[i] = bodies[i]
                  /\ \A u \in Users : u # inCall[p].to => (idx'[u] = idx[u] /\ idxTtl'[u] = idxTtl[u])
                  /\ lastEmit'.sessions \subseteq rooms[inCall[p].to]]_vars

\* A call for a notification of another user has just ended: the
\* notification is still stored, unread and in its recipient's mailbox.
C25_Witness ==
    /\ inMiss = "foreign"
    /\ bodies[1].exists /\ ~bodies[1].read /\ bodies[1].to = "u1"
    /\ idx["u1"] = <<1>>
    /\ lastEmit = NoEmit


(***************************************************************************)
(* No notification is dropped.                                             *)
(***************************************************************************)

\* Notification i is in the mailbox of user u: listed in the index, body stored.
InMailbox(i, u) == bodies[i].exists /\ \E k \in 1..Len(idx[u]) : idx[u][k] = i

\* C26: when a sendNotification call returns, the notification was emitted to
\* a live session of the recipient or it is in the recipient's mailbox, also
\* when cache commands fail and calls overlap.
C26_DeliveredOrStored ==
    [][inRet'.made =>
          \/ inRet'.delivered
          \/ /\ bodies'[inRet'.id].exists
             /\ \E k \in 1..Len(idx'[inRet'.to]) : idx'[inRet'.to][k] = inRet'.id]_vars


(***************************************************************************)
(* The stored flag.                                                        *)
(***************************************************************************)

\* C27: when sendNotification returns stored = true, the body of the
\* notification is stored and the recipient's index lists it first, also when
\* cache commands fail.
C27_StoredIsTruthful ==
    [][(inRet'.made /\ inRet'.stored) =>
          /\ bodies'[inRet'.id].exists
          /\ bodies'[inRet'.id].to = inRet'.to
          /\ idx'[inRet'.to] # <<>>
          /\ Head(idx'[inRet'.to]) = inRet'.id]_vars


(***************************************************************************)
(* Expiry of the keys.                                                     *)
(***************************************************************************)

\* C28: every key the in-app store has written carries a TTL: each stored
\* notification body and each mailbox index key.
C28_KeysKeepTtl ==
    /\ \A i \in Ids : bodies[i].exists => bodies[i].ttl > 0
    /\ \A u \in Users : idxTtl[u] # Absent => idxTtl[u] > 0


(***************************************************************************)
(* Denied calls count and denial is monotone.                              *)
(***************************************************************************)

\* The step taken is the INCR of handler p's isAllowed call, and it succeeded.
IncrStep(p) ==
    /\ rlPc[p] \in {"idle", "auth"}
    /\ rlPc'[p] \in {"expire", "respond"}
    /\ rlCall'[p].ok

\* Limiter l has denied a call for ip in the aligned window at windowStart:
\* a 429 was answered, or isAllowed has returned allowed = false to a handler
\* that has not answered yet.
DeniedInWindow(l, ip, windowStart) ==
    \/ SumOver(WindowCalls(l, ip, windowStart), "r429") > 0
    \/ \E q \in Procs :
          /\ InFlight(q) /\ rlCall[q].ok
          /\ rlCall[q].lim = l /\ rlCall[q].identifier = ip
          /\ AlignedWindow(rlCall[q].t, Limiter(l).windowMs) = windowStart
          /\ rlCall[q].current > Limiter(l).maxRequests

\* C30: with a reachable store, every isAllowed call adds exactly one to the
\* counter of its window and to no other counter, and sees the new value;
\* once the limiter has denied a call for an identifier in a window, every
\* later call for it in that window sees a counter above maxRequests;
\* remaining is maxRequests - counter when that is positive and 0 otherwise;
\* a call that sees a counter above maxRequests is denied with remaining 0,
\* any other call is allowed.
C30_DeniedCallsCount ==
    [][\A p \in Procs :
          /\ IncrStep(p) =>
                LET c == rlCall'[p]
                    lim == Limiter(c.lim)
                    ws == AlignedWindow(c.t, lim.windowMs)
                    key == RateKey(c.identifier, ws)
                IN  /\ rlCount'[key] = rlCount[key] + 1
                    /\ \A k \in Keys \ {key} : rlCount'[k] = rlCount[k]
                    /\ c.current = rlCount'[key]
                    /\ DeniedInWindow(c.lim, c.identifier, ws) => c.current > lim.maxRequests
          /\ (RespondStep(p) /\ rlCall[p].ok) =>
                LET c == rlCall[p]
                    max == Limiter(c.lim).maxRequests
                    remaining == Remaining(c.current, max)
                IN  /\ remaining >= 0
                    /\ remaining >= max - c.current
                    /\ c.current <= max => (remaining = max - c.current /\ AnsweredNext(p))
                    /\ c.current > max => (remaining = 0 /\ Answered429(p))]_vars

\* The default limiter has denied two calls for one identifier in one window
\* in which the store was reachable.
C30_Witness ==
    \E ip \in Ips : \E ws \in WindowStarts("default") :
        /\ SumOver(WindowCalls("default", ip, ws), "f") = 0
        /\ SumOver(WindowCalls("default", ip, ws), "r429") >= 2


====
